---- MODULE Spec2Model ----
(***************************************************************************)
(* State-machine model of the simulation core of diablo-clone              *)
(* (src/src/main.rs, player.rs, monsters.rs, inventory.rs, combat.rs,      *)
(* world.rs, camera.rs).                                                   *)
(*                                                                         *)
(* Numbers.  f32 world coordinates are fixed-point integers in units of    *)
(* 1/1000 tile; f32 times (dt, cooldowns, timers) are integers in          *)
(* milliseconds.  i32/u32 values of the chunk hash keep their 32-bit       *)
(* width: a word is a tuple of four bytes, least significant first.        *)
(***************************************************************************)
EXTENDS Integers, Sequences, FiniteSets, TLC

VARIABLES
    state,            \* Game.state: "Playing" | "Inventory" | "GameOver"
    player,           \* Game.player
    world,            \* Game.world (seed and the noise field it selects)
    camera,           \* Game.camera
    monsters,         \* Game.monsters: Vec<Monster>
    ground_items,     \* Game.ground_items: Vec<GroundItem>
    spawned_chunks,   \* Game.spawned_chunks: HashSet<(i32, i32)>
    floating_texts,   \* Game.floating_texts: Vec<FloatingText>
    last,             \* history: the last operation, its inputs and results
    steps,            \* history: number of operations performed so far
    spawn_history     \* history: per chunk, every outcome spawn_chunk ever
                      \* computed for it, over all world instances

vars == <<state, player, world, camera, monsters, ground_items,
          spawned_chunks, floating_texts, last, steps, spawn_history>>

gameVars == <<state, player, world, camera, monsters, ground_items,
              spawned_chunks, floating_texts>>

----------------------------------------------------------------------------
(* Bounds of the model *)

\* spawn_chunk is called directly on chunk coordinates in -MaxChunk..0
MaxChunk == 2
\* direct spawner calls explored per behaviour
MaxSpawnCalls == 3
\* inventory and equipment operations explored per behaviour
MaxInvCalls == 2
\* frames explored per behaviour
MaxFrames == 3
\* the chunk hashes are tabulated for coordinates up to this distance
HashWindow == 5

----------------------------------------------------------------------------
(* Units and generic helpers *)

\* fixed-point units of one tile
Tile == 10 * 100

Max(a, b) == IF a >= b THEN a ELSE b
Min(a, b) == IF a <= b THEN a ELSE b
Abs(a) == IF a >= 0 THEN a ELSE -a

\* statement sequencing: v is computed, then F runs on its value
Then(v, F(_)) == CHOOSE r \in {F(x) : x \in {v}} : TRUE

\* f32 floor of x / d, for d > 0 (TLA+ \div already rounds down)
FloorDiv(x, d) == x \div d

----------------------------------------------------------------------------
(* Program constants *)

CHUNK_SIZE == 8
SPAWN_RANGE == 3
WORLD_SEED == 12345
INVENTORY_SIZE == 8
PLAYER_MAX_HEALTH == 50

\* K1 = 374761393 = 0x16_56_67_B1 and K2 = 668265263 = 0x27_D4_EB_2F
K1 == <<177, 103, 86, 22>>
K2 == <<47, 235, 212, 39>>

----------------------------------------------------------------------------
(* 32-bit arithmetic of the chunk hash *)

\* an i32 as its two's-complement word (four bytes, least significant first)
I32Word(v) ==
    << v % 256, (v \div 256) % 256, (v \div 65536) % 256,
       (v \div 16777216) % 256 >>

\* i32::wrapping_mul: the low 32 bits of the product
WrappingMul(a, b) ==
    LET p0 == a[1] * b[1]
        p1 == a[1] * b[2] + a[2] * b[1] + (p0 \div 256)
        p2 == a[1] * b[3] + a[2] * b[2] + a[3] * b[1] + (p1 \div 256)
        p3 == a[1] * b[4] + a[2] * b[3] + a[3] * b[2] + a[4] * b[1]
              + (p2 \div 256)
    IN  << p0 % 256, p1 % 256, p2 % 256, p3 % 256 >>

RECURSIVE XorBits(_, _, _)
XorBits(a, b, n) ==
    IF n = 0 THEN 0
    ELSE (((a % 2) + (b % 2)) % 2) + 2 * XorBits(a \div 2, b \div 2, n - 1)

\* the ^ operator on two words
BitXor(a, b) == [i \in 1..4 |-> XorBits(a[i], b[i], 8)]

\* word % 5 (256 = 1 mod 5, so the bytes' sum has the word's residue)
WordMod5(w) == (w[1] + w[2] + w[3] + w[4]) % 5

\* (word >> 8) % m and (word >> 16) % m, for m a power of two up to 256
WordShr8Mod(w, m) == w[2] % m
WordShr16Mod(w, m) == w[3] % m

\* a hash with the two constants exchanged
ChunkHashExchanged(chunk_x, chunk_y) ==
    BitXor(WrappingMul(I32Word(chunk_x), K2), WrappingMul(I32Word(chunk_y), K1))

\* main.rs:126, the hash of a chunk coordinate, as u32
ChunkHash(chunk_x, chunk_y) ==
    BitXor(WrappingMul(I32Word(chunk_x), K1), WrappingMul(I32Word(chunk_y), K2))

\* the hashes of the chunks around the origin, computed once
ChunkHashTable ==
    [c \in ((-HashWindow)..HashWindow) \X ((-HashWindow)..HashWindow) |->
        ChunkHash(c[1], c[2])]

\* the hash of a chunk, read from the table where the table has it
ChunkHashAt(chunk_x, chunk_y) ==
    IF Abs(chunk_x) <= HashWindow /\ Abs(chunk_y) <= HashWindow
    THEN ChunkHashTable[<<chunk_x, chunk_y>>]
    ELSE ChunkHash(chunk_x, chunk_y)

----------------------------------------------------------------------------
(* combat.rs: items *)

WeaponTypes == {"Sword", "Axe", "Mace"}
ArmorTypes == {"Leather", "Chainmail", "Platemail"}
\* Option<ArmorType>::None
NoArmor == "None"

\* enum Item { Weapon(WeaponType), Armor(ArmorType) }
Weapon(w) == <<"Weapon", w>>
Armor(a) == <<"Armor", a>>
Items == {Weapon(w) : w \in WeaponTypes} \cup {Armor(a) : a \in ArmorTypes}

\* ArmorType::damage_reduction
damage_reduction(a) ==
    CASE a = "Leather" -> 1
      [] a = "Chainmail" -> 2
      [] a = "Platemail" -> 4

----------------------------------------------------------------------------
(* world.rs: terrain *)

\* number of noise fields the model draws the world's terrain noise from
NoiseFields == 3

\* Perlin::get of the external noise crate, times 100: a fixed function of
\* the field and the sample point.  The model stands in one function per
\* field index; tiles are classified over all three terrains in each.
NoiseSample(field, x, y) ==
    LET k == (FloorDiv(x, Tile) + 2 * FloorDiv(y, Tile) + field) % 5
    IN  CASE k = 0 -> -50
          [] k = 1 -> -33
          [] k = 2 -> 0
          [] k = 3 -> 33
          [] k = 4 -> 50

\* World::get_terrain_at
get_terrain_at(w, x, y) ==
    LET noise_val == NoiseSample(w.field, x, y)
    IN  IF noise_val < -33 THEN "Snow"
        ELSE IF noise_val < 33 THEN "Grass"
        ELSE "Desert"

\* World::new(seed)
WorldNew(seed, field) == [seed |-> seed, field |-> field]

----------------------------------------------------------------------------
(* monsters.rs *)

MonsterTypes == {"Goblin", "Ogre", "Orc", "Wyrm", "SnowGoblin", "Yeti"}

\* MonsterType::max_health
max_health(t) ==
    CASE t = "Goblin" -> 10
      [] t = "Ogre" -> 30
      [] t = "Orc" -> 20
      [] t = "Wyrm" -> 50
      [] t = "SnowGoblin" -> 10
      [] t = "Yeti" -> 30

\* MonsterType::base_damage
base_damage(t) ==
    CASE t = "Goblin" -> 5
      [] t = "Ogre" -> 8
      [] t = "Orc" -> 6
      [] t = "Wyrm" -> 10
      [] t = "SnowGoblin" -> 5
      [] t = "Yeti" -> 8

\* MonsterType::for_terrain
for_terrain(terrain) ==
    CASE terrain = "Grass" -> <<"Goblin", "Ogre">>
      [] terrain = "Desert" -> <<"Orc", "Wyrm">>
      [] terrain = "Snow" -> <<"SnowGoblin", "Yeti">>

\* a choice of species that takes every terrain for Grass
random_for_grass(terrain, idx) == for_terrain("Grass")[idx + 1]

\* MonsterType::random_for_terrain; idx is what rand::gen_range(0, len) drew
random_for_terrain(terrain, idx) == for_terrain(terrain)[idx + 1]

\* the values rand::gen_range(0, types.len()) can return
SpeciesRolls == 0..1

\* Monster::new (speed is the constant 4.0)
MonsterNew(x, y, monster_type) ==
    [x |-> x, y |-> y, health |-> max_health(monster_type),
     max_health |-> max_health(monster_type), monster_type |-> monster_type,
     attack_cooldown |-> 0]

----------------------------------------------------------------------------
(* player.rs, inventory.rs, camera.rs: constructors *)

\* Inventory::new
InventoryNew == << >>

\* Player::new
PlayerNew(x, y) ==
    [x |-> x, y |-> y, health |-> PLAYER_MAX_HEALTH,
     max_health |-> PLAYER_MAX_HEALTH, weapon |-> "Sword", armor |-> NoArmor,
     inventory |-> InventoryNew, attack_cooldown |-> 0, regen_timer |-> 0,
     facing |-> "UpRight"]

\* GameCamera::new (lerp_speed is the constant 5.0)
CameraNew == [x |-> 0, y |-> 0]

----------------------------------------------------------------------------
(* main.rs: the chunk spawner *)

\* a spawner that adds the offsets hash >> 8 mod 8 and hash >> 16 mod 8 to
\* the centre of the chunk without re-centring them
spawn_chunk_fresh_uncentred(sc, ms, w, chunk_x, chunk_y, idx) ==
    LET sc1 == sc \cup {<<chunk_x, chunk_y>>}
        half == (CHUNK_SIZE * Tile) \div 2
        world_x == (chunk_x * CHUNK_SIZE) * Tile + half
        world_y == (chunk_y * CHUNK_SIZE) * Tile + half
    IN  Then(ChunkHashAt(chunk_x, chunk_y), LAMBDA hash :
        IF WordMod5(hash) # 0
        THEN [spawned_chunks |-> sc1, monsters |-> ms]
        ELSE Then(world_x + WordShr8Mod(hash, CHUNK_SIZE) * Tile,
                  LAMBDA spawn_x :
             Then(world_y + WordShr16Mod(hash, CHUNK_SIZE) * Tile,
                  LAMBDA spawn_y :
             IF Abs(spawn_x) < 5 * Tile /\ Abs(spawn_y) < 5 * Tile
             THEN [spawned_chunks |-> sc1, monsters |-> ms]
             ELSE [spawned_chunks |-> sc1,
                   monsters |->
                      Append(ms, MonsterNew(spawn_x, spawn_y,
                                     random_for_terrain(
                                         get_terrain_at(w, spawn_x, spawn_y),
                                         idx)))])))

\* a spawner without the test of the start area
spawn_chunk_fresh_no_guard(sc, ms, w, chunk_x, chunk_y, idx) ==
    LET sc1 == sc \cup {<<chunk_x, chunk_y>>}
        half == (CHUNK_SIZE * Tile) \div 2
        world_x == (chunk_x * CHUNK_SIZE) * Tile + half
        world_y == (chunk_y * CHUNK_SIZE) * Tile + half
    IN  Then(ChunkHashAt(chunk_x, chunk_y), LAMBDA hash :
        IF WordMod5(hash) # 0
        THEN [spawned_chunks |-> sc1, monsters |-> ms]
        ELSE Then(world_x + WordShr8Mod(hash, CHUNK_SIZE) * Tile - half,
                  LAMBDA spawn_x :
             Then(world_y + WordShr16Mod(hash, CHUNK_SIZE) * Tile - half,
                  LAMBDA spawn_y :
             [spawned_chunks |-> sc1,
              monsters |->
                 Append(ms, MonsterNew(spawn_x, spawn_y,
                                random_for_terrain(
                                    get_terrain_at(w, spawn_x, spawn_y),
                                    idx)))])))

\* spawn_chunk past its already-spawned test (main.rs:123-153)
spawn_chunk_fresh(sc, ms, w, chunk_x, chunk_y, idx) ==
    LET sc1 == sc \cup {<<chunk_x, chunk_y>>}
        half == (CHUNK_SIZE * Tile) \div 2
        world_x == (chunk_x * CHUNK_SIZE) * Tile + half
        world_y == (chunk_y * CHUNK_SIZE) * Tile + half
    IN  Then(ChunkHashAt(chunk_x, chunk_y), LAMBDA hash :
        IF WordMod5(hash) # 0
        THEN [spawned_chunks |-> sc1, monsters |-> ms]
        ELSE Then(world_x + WordShr8Mod(hash, CHUNK_SIZE) * Tile - half,
                  LAMBDA spawn_x :
             Then(world_y + WordShr16Mod(hash, CHUNK_SIZE) * Tile - half,
                  LAMBDA spawn_y :
             IF Abs(spawn_x) < 5 * Tile /\ Abs(spawn_y) < 5 * Tile
             THEN [spawned_chunks |-> sc1, monsters |-> ms]
             ELSE [spawned_chunks |-> sc1,
                   monsters |->
                      Append(ms, MonsterNew(spawn_x, spawn_y,
                                     random_for_terrain(
                                         get_terrain_at(w, spawn_x, spawn_y),
                                         idx)))])))

\* a spawner that does not look the chunk up before processing it
spawn_chunk_unchecked(sc, ms, w, chunk_x, chunk_y, idx) ==
    spawn_chunk_fresh(sc, ms, w, chunk_x, chunk_y, idx)

\* Game::spawn_chunk on spawned_chunks sc and monsters ms
spawn_chunk(sc, ms, w, chunk_x, chunk_y, idx) ==
    IF <<chunk_x, chunk_y>> \in sc
    THEN [spawned_chunks |-> sc, monsters |-> ms]
    ELSE spawn_chunk_fresh(sc, ms, w, chunk_x, chunk_y, idx)

\* what processing a chunk decided: no monster, or its place and species
SpawnOutcome(before, after) ==
    IF Len(after) = Len(before)
    THEN [spawned |-> FALSE, x |-> 0, y |-> 0, monster_type |-> "None"]
    ELSE [spawned |-> TRUE, x |-> after[Len(after)].x,
          y |-> after[Len(after)].y,
          monster_type |-> after[Len(after)].monster_type]

\* the Game value built at main.rs:88-101, before the initial spawn
GameStruct(field) ==
    /\ state = "Playing"
    /\ player = PlayerNew(0, 0)
    /\ world = WorldNew(WORLD_SEED, field)
    /\ camera = CameraNew
    /\ monsters = << >>
    /\ ground_items = << >>
    /\ spawned_chunks = {}
    /\ floating_texts = << >>

----------------------------------------------------------------------------
(* Specification SpecSpawn: the chunk spawner called directly *)

SpawnCoords == (-MaxChunk)..0

InitSpawn ==
    /\ \E field \in 0..(NoiseFields - 1) : GameStruct(field)
    /\ last = [op |-> "new"]
    /\ steps = 0
    /\ spawn_history = {}

\* a call self.spawn_chunk(chunk_x, chunk_y)
CallSpawnChunk ==
    \E chunk_x \in SpawnCoords, chunk_y \in SpawnCoords, idx \in SpeciesRolls :
        LET r == spawn_chunk(spawned_chunks, monsters, world, chunk_x, chunk_y, idx)
            fresh == <<chunk_x, chunk_y>> \notin spawned_chunks
        IN  /\ steps < MaxSpawnCalls
            /\ spawned_chunks' = r.spawned_chunks
            /\ monsters' = r.monsters
            /\ last' = [op |-> "spawn_chunk", chunk |-> <<chunk_x, chunk_y>>,
                        was_spawned |-> ~fresh]
            /\ steps' = steps + 1
            /\ spawn_history' =
                  IF fresh
                  THEN spawn_history \cup
                       {<<chunk_x, chunk_y, SpawnOutcome(monsters, r.monsters)>>}
                  ELSE spawn_history
            /\ UNCHANGED <<state, player, world, camera, ground_items,
                           floating_texts>>

\* the world instance is dropped and a new one is built (same seed)
NewWorldInstance ==
    /\ steps < MaxSpawnCalls
    /\ spawned_chunks # {}
    /\ spawned_chunks' = {}
    /\ monsters' = << >>
    /\ last' = [op |-> "new"]
    /\ steps' = steps + 1
    /\ UNCHANGED <<state, player, world, camera, ground_items, floating_texts,
                   spawn_history>>

NextSpawn == CallSpawnChunk \/ NewWorldInstance

SpecSpawn == InitSpawn /\ [][NextSpawn]_vars

\* the chunk a monster stands in: floor(pos / CHUNK_SIZE)
ChunkOf(m) ==
    <<FloorDiv(m.x, CHUNK_SIZE * Tile), FloorDiv(m.y, CHUNK_SIZE * Tile)>>

\* C1: chunk spawning is idempotent.  A call of spawn_chunk on a chunk that
\* is already in spawned_chunks adds no monster and changes nothing of the
\* game, the chunk stays recorded, and in one world instance no chunk ever
\* holds more than one monster it created.
C1_ChunkSpawnIdempotent ==
    /\ [](\A c \in spawned_chunks :
            Cardinality({i \in 1..Len(monsters) : ChunkOf(monsters[i]) = c}) <= 1)
    /\ [][(last'.op = "spawn_chunk" /\ last'.chunk \in spawned_chunks)
            => /\ monsters' = monsters
               /\ spawned_chunks' = spawned_chunks
               /\ last'.chunk \in spawned_chunks'
               /\ UNCHANGED <<state, player, world, camera, ground_items,
                              floating_texts>>]_vars

\* a second call on a chunk that had created a monster
C1_Witness ==
    /\ last.op = "spawn_chunk"
    /\ last.was_spawned
    /\ \E i \in 1..Len(monsters) : ChunkOf(monsters[i]) = last.chunk

\* C2: spawning is deterministic.  Whatever the world instance, the RNG
\* state and the order of the calls, a chunk coordinate always gets the same
\* spawn decision, the same position and the same species.
C2_DeterministicSpawn ==
    \A e1 \in spawn_history : \A e2 \in spawn_history :
        (e1[1] = e2[1] /\ e1[2] = e2[2]) => e1[3] = e2[3]

----------------------------------------------------------------------------
(* combat.rs: damage *)

\* calculate_damage(base_damage, armor); armor is NoArmor or an ArmorType
calculate_damage_floor0(base_dmg, armor) ==
    LET reduction == IF armor = NoArmor THEN 0 ELSE damage_reduction(armor)
    IN  Max(base_dmg - reduction, 0)

calculate_damage(base_dmg, armor) ==
    LET reduction == IF armor = NoArmor THEN 0 ELSE damage_reduction(armor)
    IN  Max(base_dmg - reduction, 1)

(* Specification SpecDamage: calculate_damage applied to drawn inputs *)

\* largest base damage drawn
MaxBaseDamage == 15

InitDamage ==
    /\ GameStruct(0)
    /\ \E b \in 1..MaxBaseDamage, a \in {NoArmor} \cup ArmorTypes :
          last = [op |-> "input", base_damage |-> b, armor |-> a]
    /\ steps = 0
    /\ spawn_history = {}

CallCalculateDamage ==
    /\ last.op = "input"
    /\ last' = [op |-> "calculate_damage", base_damage |-> last.base_damage,
                armor |-> last.armor,
                ret |-> calculate_damage(last.base_damage, last.armor)]
    /\ steps' = steps + 1
    /\ UNCHANGED <<gameVars, spawn_history>>

NextDamage == CallCalculateDamage

SpecDamage == InitDamage /\ [][NextDamage]_vars

\* the reduction of each armor, as the claim lists them
C4_Reduction(a) ==
    IF a = "Leather" THEN 1
    ELSE IF a = "Chainmail" THEN 2
    ELSE IF a = "Platemail" THEN 4
    ELSE 0

\* C4: damage floor.  For every base damage >= 1 and every armor the result
\* of calculate_damage is base - reduction when that is at least 1 and is 1
\* otherwise, so it is never below 1; base 1 against Platemail gives 1.
C4_DamageFloor ==
    last.op = "calculate_damage" =>
        LET d == last.base_damage - C4_Reduction(last.armor)
        IN  /\ last.ret >= 1
            /\ (d >= 1 => last.ret = d)
            /\ (d < 1 => last.ret = 1)
            /\ ((last.base_damage = 1 /\ last.armor = "Platemail")
                    => last.ret = 1)

\* base damage 1 against Platemail has been computed
C4_Witness ==
    /\ last.op = "calculate_damage"
    /\ last.base_damage = 1
    /\ last.armor = "Platemail"
    /\ last.ret = 1

----------------------------------------------------------------------------
(* inventory.rs and player.rs: the inventory and equipment *)

\* Option<Item>::None
NoItem == <<"None", "None">>

\* Inventory::add_item never looked at the capacity
add_item_unbounded(items, item) ==
    [items |-> Append(items, item), ret |-> TRUE]

\* Inventory::add_item: the new items and the returned bool
add_item(items, item) ==
    IF Len(items) < INVENTORY_SIZE
    THEN [items |-> Append(items, item), ret |-> TRUE]
    ELSE [items |-> items, ret |-> FALSE]

\* Vec::remove(index): the later elements shift down by one
VecRemove(v, index) ==
    [k \in 1..(Len(v) - 1) |-> IF k <= index THEN v[k] ELSE v[k + 1]]

\* Inventory::remove_item that takes the last item when the index is past the end
remove_item_clamped(items, index) ==
    IF items # << >>
    THEN LET i == Min(index, Len(items) - 1)
         IN  [items |-> VecRemove(items, i), ret |-> items[i + 1]]
    ELSE [items |-> items, ret |-> NoItem]

\* Inventory::remove_item (index counts from 0): the new items and the
\* returned Option<Item>
remove_item(items, index) ==
    IF index < Len(items)
    THEN [items |-> VecRemove(items, index), ret |-> items[index + 1]]
    ELSE [items |-> items, ret |-> NoItem]

\* Inventory::is_full and Inventory::count
is_full(items) == Len(items) >= INVENTORY_SIZE
count(items) == Len(items)

\* Player::equip_item that hands nothing back for a weapon
equip_item_drop_weapon(p, item) ==
    IF item[1] = "Weapon"
    THEN [player |-> [p EXCEPT !.weapon = item[2]], ret |-> NoItem]
    ELSE [player |-> [p EXCEPT !.armor = item[2]],
          ret |-> IF p.armor = NoArmor THEN NoItem ELSE Armor(p.armor)]

\* Player::equip_item: the new player and the returned Option<Item>
equip_item(p, item) ==
    IF item[1] = "Weapon"
    THEN [player |-> [p EXCEPT !.weapon = item[2]], ret |-> Weapon(p.weapon)]
    ELSE [player |-> [p EXCEPT !.armor = item[2]],
          ret |-> IF p.armor = NoArmor THEN NoItem ELSE Armor(p.armor)]

\* get_clicked_slot returned None
NoClick == -1

\* a slot click that equips the clicked item and leaves it in its slot
equip_click_keep(p, slot_idx) ==
    IF slot_idx = NoClick THEN p
    ELSE LET removed == remove_item(p.inventory, slot_idx)
         IN  IF removed.ret = NoItem THEN p
             ELSE LET e == equip_item(p, removed.ret)
                  IN  IF e.ret = NoItem THEN e.player
                      ELSE [e.player EXCEPT
                               !.inventory = add_item(e.player.inventory, e.ret).items]

\* a slot click that puts the displaced item into the clicked slot
equip_click_in_place(p, slot_idx) ==
    IF slot_idx = NoClick THEN p
    ELSE LET removed == remove_item(p.inventory, slot_idx)
         IN  IF removed.ret = NoItem THEN p
             ELSE LET p1 == [p EXCEPT !.inventory = removed.items]
                      e == equip_item(p1, removed.ret)
                  IN  IF e.ret = NoItem THEN e.player
                      ELSE [e.player EXCEPT
                               !.inventory = [p.inventory EXCEPT
                                                 ![slot_idx + 1] = e.ret]]

\* the slot click of Game::update_inventory (main.rs:211-220) on player p
equip_click(p, slot_idx) ==
    IF slot_idx = NoClick THEN p
    ELSE LET removed == remove_item(p.inventory, slot_idx)
         IN  IF removed.ret = NoItem THEN p
             ELSE LET p1 == [p EXCEPT !.inventory = removed.items]
                      e == equip_item(p1, removed.ret)
                  IN  IF e.ret = NoItem THEN e.player
                      ELSE [e.player EXCEPT
                               !.inventory = add_item(e.player.inventory, e.ret).items]

----------------------------------------------------------------------------
(* f32 arithmetic in fixed point *)

\* milliseconds in one second
Second == 10 * 100

\* a / b rounded to the nearest integer, for b > 0
DivRound(a, b) ==
    IF a >= 0 THEN (2 * a + b) \div (2 * b)
    ELSE -((2 * (-a) + b) \div (2 * b))

\* the largest r in lo..hi with r * r <= n
RECURSIVE SqrtSearch(_, _, _)
SqrtSearch(n, lo, hi) ==
    IF lo >= hi THEN lo
    ELSE LET mid == (lo + hi + 1) \div 2
         IN  IF mid * mid <= n THEN SqrtSearch(n, mid, hi)
             ELSE SqrtSearch(n, lo, mid - 1)

\* f32::sqrt, rounded to the nearest integer
Sqrt(n) ==
    Then(SqrtSearch(n, 0, 46340), LAMBDA r :
         IF n - r * r > r THEN r + 1 ELSE r)

\* (dx * dx + dy * dy).sqrt() <= r, decided on the squares
WithinDist(ax, ay, r) ==
    /\ Abs(ax) <= r
    /\ Abs(ay) <= r
    /\ ax * ax + ay * ay <= r * r

----------------------------------------------------------------------------
(* player.rs: Player::update, can_attack, attack, take_damage *)

KeyVal(keys, k) == IF k \in keys THEN 1 ELSE 0

\* a Player::update whose regeneration tick leaves the accumulator as it is
player_update_keep_timer(p, keys, dt) ==
    LET dx0 == KeyVal(keys, "S") + KeyVal(keys, "D")
               - KeyVal(keys, "W") - KeyVal(keys, "A")
        dy0 == KeyVal(keys, "S") + KeyVal(keys, "A")
               - KeyVal(keys, "W") - KeyVal(keys, "D")
        cooldown == IF p.attack_cooldown > 0 THEN p.attack_cooldown - dt
                    ELSE p.attack_cooldown
        timer == IF p.health < p.max_health THEN p.regen_timer + dt
                 ELSE p.regen_timer
        tick == p.health < p.max_health /\ timer >= Second
    IN  Then(Sqrt((dx0 * dx0 + dy0 * dy0) * Tile * Tile), LAMBDA len :
        Then(IF len > 0 THEN DivRound(dx0 * Tile * Tile, len) ELSE dx0 * Tile,
             LAMBDA dx :
        Then(IF len > 0 THEN DivRound(dy0 * Tile * Tile, len) ELSE dy0 * Tile,
             LAMBDA dy :
        [p EXCEPT !.x = p.x + DivRound(dx * 5 * dt, Second),
                  !.y = p.y + DivRound(dy * 5 * dt, Second),
                  !.facing =
                     IF len > 0
                     THEN (IF dx < 0
                           THEN (IF dy < 0 THEN "UpLeft" ELSE "DownLeft")
                           ELSE (IF dy < 0 THEN "UpRight" ELSE "DownRight"))
                     ELSE p.facing,
                  !.attack_cooldown = cooldown,
                  !.regen_timer = timer,
                  !.health = IF tick THEN Min(p.health + 1, p.max_health)
                             ELSE p.health])))

\* a Player::update that does not normalize the intent vector
player_update_unnormalized(p, keys, dt) ==
    LET dx0 == KeyVal(keys, "S") + KeyVal(keys, "D")
               - KeyVal(keys, "W") - KeyVal(keys, "A")
        dy0 == KeyVal(keys, "S") + KeyVal(keys, "A")
               - KeyVal(keys, "W") - KeyVal(keys, "D")
        cooldown == IF p.attack_cooldown > 0 THEN p.attack_cooldown - dt
                    ELSE p.attack_cooldown
        timer == IF p.health < p.max_health THEN p.regen_timer + dt
                 ELSE p.regen_timer
        tick == p.health < p.max_health /\ timer >= Second
        moving == dx0 # 0 \/ dy0 # 0
    IN  [p EXCEPT !.x = p.x + DivRound(dx0 * Tile * 5 * dt, Second),
                  !.y = p.y + DivRound(dy0 * Tile * 5 * dt, Second),
                  !.facing =
                     IF moving
                     THEN (IF dx0 < 0
                           THEN (IF dy0 < 0 THEN "UpLeft" ELSE "DownLeft")
                           ELSE (IF dy0 < 0 THEN "UpRight" ELSE "DownRight"))
                     ELSE p.facing,
                  !.attack_cooldown = cooldown,
                  !.regen_timer = IF tick THEN timer - Second ELSE timer,
                  !.health = IF tick THEN Min(p.health + 1, p.max_health)
                             ELSE p.health]

\* Player::update(dt); keys holds the direction keys that are down
\* ("W" stands for W or Up, "S" for S or Down, "A" for A or Left, "D" for D
\* or Right)
player_update(p, keys, dt) ==
    LET dx0 == KeyVal(keys, "S") + KeyVal(keys, "D")
               - KeyVal(keys, "W") - KeyVal(keys, "A")
        dy0 == KeyVal(keys, "S") + KeyVal(keys, "A")
               - KeyVal(keys, "W") - KeyVal(keys, "D")
        cooldown == IF p.attack_cooldown > 0 THEN p.attack_cooldown - dt
                    ELSE p.attack_cooldown
        timer == IF p.health < p.max_health THEN p.regen_timer + dt
                 ELSE p.regen_timer
        tick == p.health < p.max_health /\ timer >= Second
    IN  Then(Sqrt((dx0 * dx0 + dy0 * dy0) * Tile * Tile), LAMBDA len :
        Then(IF len > 0 THEN DivRound(dx0 * Tile * Tile, len) ELSE dx0 * Tile,
             LAMBDA dx :
        Then(IF len > 0 THEN DivRound(dy0 * Tile * Tile, len) ELSE dy0 * Tile,
             LAMBDA dy :
        [p EXCEPT !.x = p.x + DivRound(dx * 5 * dt, Second),
                  !.y = p.y + DivRound(dy * 5 * dt, Second),
                  !.facing =
                     IF len > 0
                     THEN (IF dx < 0
                           THEN (IF dy < 0 THEN "UpLeft" ELSE "DownLeft")
                           ELSE (IF dy < 0 THEN "UpRight" ELSE "DownRight"))
                     ELSE p.facing,
                  !.attack_cooldown = cooldown,
                  !.regen_timer = IF tick THEN timer - Second ELSE timer,
                  !.health = IF tick THEN Min(p.health + 1, p.max_health)
                             ELSE p.health])))

\* Player::can_attack and Monster::can_attack
can_attack(a) == a.attack_cooldown <= 0

\* a Player::attack that leaves the cooldown as it is
player_attack_no_cooldown(p) == p

\* Player::attack: a cooldown of 0.3 s
player_attack(p) == [p EXCEPT !.attack_cooldown = (3 * Second) \div 10]

\* a Player::take_damage that does not clamp the health at 0
player_take_damage_unclamped(p, raw_damage) ==
    LET reduction == IF p.armor = NoArmor THEN 0 ELSE damage_reduction(p.armor)
        damage == Max(raw_damage - reduction, 1)
    IN  [p EXCEPT !.health = p.health - damage]

\* Player::take_damage
player_take_damage(p, raw_damage) ==
    LET reduction == IF p.armor = NoArmor THEN 0 ELSE damage_reduction(p.armor)
        damage == Max(raw_damage - reduction, 1)
    IN  [p EXCEPT !.health = Max(p.health - damage, 0)]

\* WeaponType::roll_damage: the values the roll can take
WeaponRolls(w) ==
    CASE w = "Sword" -> 1..10
      [] w = "Axe" -> 5..8
      [] w = "Mace" -> {7}

----------------------------------------------------------------------------
(* monsters.rs: Monster::update, attack, calculate_damage, take_damage *)

\* a Monster::update that also chases from a distance of exactly 0.5 tile
monster_update_inclusive(m, dt, player_x, player_y) ==
    LET cooldown == IF m.attack_cooldown > 0 THEN m.attack_cooldown - dt
                    ELSE m.attack_cooldown
        dx == player_x - m.x
        dy == player_y - m.y
        chase == /\ WithinDist(dx, dy, 10 * Tile)
                 /\ ~WithinDist(dx, dy, Tile \div 2 - 1)
    IN  IF chase
        THEN Then(Sqrt(dx * dx + dy * dy), LAMBDA dist :
                  [m EXCEPT !.attack_cooldown = cooldown,
                            !.x = m.x + DivRound(dx * 4 * dt, dist),
                            !.y = m.y + DivRound(dy * 4 * dt, dist)])
        ELSE [m EXCEPT !.attack_cooldown = cooldown]

\* Monster::update(dt, player_x, player_y)
monster_update(m, dt, player_x, player_y) ==
    LET cooldown == IF m.attack_cooldown > 0 THEN m.attack_cooldown - dt
                    ELSE m.attack_cooldown
        dx == player_x - m.x
        dy == player_y - m.y
        chase == WithinDist(dx, dy, 10 * Tile) /\ ~WithinDist(dx, dy, Tile \div 2)
    IN  IF chase
        THEN Then(Sqrt(dx * dx + dy * dy), LAMBDA dist :
                  [m EXCEPT !.attack_cooldown = cooldown,
                            !.x = m.x + DivRound(dx * 4 * dt, dist),
                            !.y = m.y + DivRound(dy * 4 * dt, dist)])
        ELSE [m EXCEPT !.attack_cooldown = cooldown]

\* a Monster::attack with the player's shorter cooldown of 0.3 s
monster_attack_short(m) == [m EXCEPT !.attack_cooldown = (3 * Second) \div 10]

\* Monster::attack: a cooldown of 0.5 s
monster_attack(m) == [m EXCEPT !.attack_cooldown = Second \div 2]

\* Monster::calculate_damage(&player)
monster_calculate_damage(m, p) ==
    calculate_damage(base_damage(m.monster_type), p.armor)

\* a Monster::take_damage that takes half of the damage
monster_take_damage_halved(m, damage) ==
    [m EXCEPT !.health = Max(m.health - damage \div 2, 0)]

\* Monster::take_damage
monster_take_damage(m, damage) ==
    [m EXCEPT !.health = Max(m.health - damage, 0)]

\* Monster::roll_loot: nothing, or one random item
LootRolls == {NoItem} \cup Items

----------------------------------------------------------------------------
(* camera.rs: GameCamera::follow *)

\* the scale of a fraction in fixed point
Frac == 100 * 100

\* exp(-z / 1000) * Frac for 0 <= z <= 500, by its power series
ExpNegSeries(z) ==
    LET t1 == (Frac * z) \div 1000
        t2 == (t1 * z) \div 2000
        t3 == (t2 * z) \div 3000
        t4 == (t3 * z) \div 4000
        t5 == (t4 * z) \div 5000
    IN  Frac - t1 + t2 - t3 + t4 - t5

\* f32::exp of -z / 1000, times Frac
RECURSIVE ExpNeg(_)
ExpNeg(z) ==
    IF z <= 500 THEN ExpNegSeries(z)
    ELSE DivRound(ExpNeg(z \div 2) * ExpNeg(z - (z \div 2)), Frac)

\* a follow whose factor is twice 1 - exp(-lerp_speed * dt)
follow_doubled(cam, target_x, target_y, dt) ==
    Then(2 * (Frac - ExpNeg(5 * dt)), LAMBDA lerp :
         [x |-> cam.x + DivRound((target_x - cam.x) * lerp, Frac),
          y |-> cam.y + DivRound((target_y - cam.y) * lerp, Frac)])

\* GameCamera::follow(target_x, target_y, dt), lerp_speed = 5.0
follow(cam, target_x, target_y, dt) ==
    Then(Frac - ExpNeg(5 * dt), LAMBDA lerp :
         [x |-> cam.x + DivRound((target_x - cam.x) * lerp, Frac),
          y |-> cam.y + DivRound((target_y - cam.y) * lerp, Frac)])

----------------------------------------------------------------------------
(* main.rs: spawn_monsters_around_player *)

\* the chunks spawn_monsters_around_player visits, in the order of its loops
SpawnOrder(p) ==
    LET player_chunk_x == FloorDiv(p.x, CHUNK_SIZE * Tile)
        player_chunk_y == FloorDiv(p.y, CHUNK_SIZE * Tile)
        side == 2 * SPAWN_RANGE + 1
    IN  [k \in 1..(side * side) |->
            << player_chunk_x - SPAWN_RANGE + ((k - 1) % side),
               player_chunk_y - SPAWN_RANGE + ((k - 1) \div side) >>]

\* the set of the chunks the loops visit
SpawnArea(p) ==
    LET player_chunk_x == FloorDiv(p.x, CHUNK_SIZE * Tile)
        player_chunk_y == FloorDiv(p.y, CHUNK_SIZE * Tile)
    IN  ((player_chunk_x - SPAWN_RANGE)..(player_chunk_x + SPAWN_RANGE))
        \X ((player_chunk_y - SPAWN_RANGE)..(player_chunk_y + SPAWN_RANGE))

\* the visited chunks that are new and create a monster: the calls that
\* draw a species from the RNG
SpawningChunks(sc, w, p) ==
    {c \in SpawnArea(p) \ sc :
        Len(spawn_chunk({}, << >>, w, c[1], c[2], 0).monsters) = 1}

\* a set of numbers as the sequence that lists it in ascending order
RECURSIVE Ascending(_)
Ascending(S) ==
    IF S = {} THEN << >>
    ELSE LET least == CHOOSE x \in S : \A y \in S : x <= y
         IN  <<least>> \o Ascending(S \ {least})

\* what the call of spawn_chunk in iteration k of the loops pushes onto the
\* monster list.  The loops visit pairwise distinct chunks, so iteration k
\* meets its chunk already spawned exactly if it was before the loops began.
spawn_pushed(sc, w, order, k, idxs) ==
    spawn_chunk(sc, << >>, w, order[k][1], order[k][2],
                IF order[k] \in DOMAIN idxs THEN idxs[order[k]] ELSE 0).monsters

\* a visit that records only the chunks that created a monster
spawn_monsters_recording_hits(sc, ms, w, p, idxs) ==
    Then(SpawnOrder(p), LAMBDA order :
    Then(Ascending({k \in DOMAIN order :
                       Len(spawn_pushed(sc, w, order, k, idxs)) = 1}),
         LAMBDA pushing :
    [spawned_chunks |-> sc \cup {order[pushing[j]] : j \in 1..Len(pushing)},
     monsters |-> ms \o [j \in 1..Len(pushing) |->
                            spawn_pushed(sc, w, order, pushing[j], idxs)[1]]]))

\* Game::spawn_monsters_around_player; idxs gives the species roll of every
\* chunk that draws one.  Every visited chunk ends up spawned, and the
\* monsters the iterations push are appended in the order of the iterations.
spawn_monsters_around_player(sc, ms, w, p, idxs) ==
    Then(SpawnOrder(p), LAMBDA order :
    Then(Ascending({k \in DOMAIN order :
                       Len(spawn_pushed(sc, w, order, k, idxs)) = 1}),
         LAMBDA pushing :
    [spawned_chunks |-> sc \cup SpawnArea(p),
     monsters |-> ms \o [j \in 1..Len(pushing) |->
                            spawn_pushed(sc, w, order, pushing[j], idxs)[1]]]))

\* the outcomes the visit computes for the chunks that were new
SpawnRecords(sc, w, p, idxs) ==
    {<<c[1], c[2],
       SpawnOutcome(<< >>,
           spawn_chunk({}, << >>, w, c[1], c[2],
                       IF c \in DOMAIN idxs THEN idxs[c] ELSE 0).monsters)>> :
        c \in SpawnArea(p) \ sc}

----------------------------------------------------------------------------
(* main.rs: handle_combat *)

\* the places of the monsters nearer than 1.0 to p
InAttackRangeStrict(ms, p) ==
    {i \in 1..Len(ms) :
        /\ WithinDist(ms[i].x - p.x, ms[i].y - p.y, Tile)
        /\ (ms[i].x - p.x) * (ms[i].x - p.x)
             + (ms[i].y - p.y) * (ms[i].y - p.y) < Tile * Tile}

\* the (1-based) places of the monsters within attack range 1.0 of p
InAttackRange(ms, p) ==
    {i \in 1..Len(ms) : WithinDist(ms[i].x - p.x, ms[i].y - p.y, Tile)}

\* main.rs:238-251: every monster in range takes its own damage roll
strike(ms, p, rolls) ==
    [i \in 1..Len(ms) |->
        IF i \in InAttackRange(ms, p) THEN monster_take_damage(ms[i], rolls[i])
        ELSE ms[i]]

\* the places struck to health <= 0
DeadSet(ms, p, rolls) ==
    {i \in InAttackRange(ms, p) : strike(ms, p, rolls)[i].health <= 0}

\* a removal in which a kill that rolls loot drops it twice
RECURSIVE remove_dead_double_drop(_, _, _, _, _)
remove_dead_double_drop(ms, gi, dead, k, loot) ==
    IF k = 0 THEN [monsters |-> ms, ground_items |-> gi]
    ELSE LET index == dead[k]
             monster == ms[index]
             item == [x |-> monster.x, y |-> monster.y, item |-> loot[index]]
             drop == IF loot[index] # NoItem THEN gi \o <<item, item>> ELSE gi
         IN  remove_dead_double_drop(VecRemove(ms, index - 1), drop, dead,
                                     k - 1, loot)

\* a removal that takes the dead indices in ascending order
RECURSIVE remove_dead_forward(_, _, _, _, _)
remove_dead_forward(ms, gi, dead, k, loot) ==
    IF k = 0 THEN [monsters |-> ms, ground_items |-> gi]
    ELSE LET index == dead[Len(dead) - k + 1]
             monster == ms[index]
             drop == IF loot[index] # NoItem
                     THEN Append(gi, [x |-> monster.x, y |-> monster.y,
                                      item |-> loot[index]])
                     ELSE gi
         IN  remove_dead_forward(VecRemove(ms, index - 1), drop, dead, k - 1,
                                 loot)

\* main.rs:254-263: dead_indices.into_iter().rev(), k runs from the last
\* index down; loot[i] is what the monster at place i rolled
RECURSIVE remove_dead(_, _, _, _, _)
remove_dead(ms, gi, dead, k, loot) ==
    IF k = 0 THEN [monsters |-> ms, ground_items |-> gi]
    ELSE LET index == dead[k]
             monster == ms[index]
             drop == IF loot[index] # NoItem
                     THEN Append(gi, [x |-> monster.x, y |-> monster.y,
                                      item |-> loot[index]])
                     ELSE gi
         IN  remove_dead(VecRemove(ms, index - 1), drop, dead, k - 1, loot)

\* main.rs:267-279: every monster that can attack and is within 1.0 hits;
\* hits logs each hit (species, armor, health before and after, and the
\* attacker's place in the list, health, cooldown and offset to the player)
RECURSIVE monsters_attack(_, _, _, _)
monsters_attack(p, ms, i, hits) ==
    IF i > Len(ms) THEN [player |-> p, monsters |-> ms, hits |-> hits]
    ELSE IF can_attack(ms[i])
            /\ WithinDist(p.x - ms[i].x, p.y - ms[i].y, Tile)
    THEN Then(player_take_damage(p, monster_calculate_damage(ms[i], p)),
              LAMBDA p1 :
              monsters_attack(p1, [ms EXCEPT ![i] = monster_attack(ms[i])],
                  i + 1,
                  Append(hits, [monster_type |-> ms[i].monster_type,
                                armor |-> p.armor,
                                health_before |-> p.health,
                                health_after |-> p1.health,
                                attacker |-> i,
                                attacker_health |-> ms[i].health,
                                attacker_cooldown |-> ms[i].attack_cooldown,
                                attacker_dx |-> p.x - ms[i].x,
                                attacker_dy |-> p.y - ms[i].y])))
    ELSE monsters_attack(p, ms, i + 1, hits)

\* a combat step in which the monsters attack before the dead are removed
handle_combat_dead_attack(p, ms, gi, mouse, rolls, loot) ==
    LET attacking == mouse /\ can_attack(p)
    IN  Then(IF attacking THEN player_attack(p) ELSE p, LAMBDA p1 :
        Then(IF attacking THEN strike(ms, p, rolls) ELSE ms, LAMBDA ms1 :
        Then(IF attacking THEN Ascending(DeadSet(ms, p, rolls)) ELSE << >>,
             LAMBDA dead_indices :
        Then(monsters_attack(p1, ms1, 1, << >>), LAMBDA att :
        Then(remove_dead(att.monsters, gi, dead_indices, Len(dead_indices),
                         loot),
             LAMBDA rem :
        [player |-> att.player, monsters |-> rem.monsters,
         ground_items |-> rem.ground_items, hits |-> att.hits,
         attacked |-> attacking, kills |-> Len(dead_indices)])))))

\* a combat step in which an attack that reaches no monster leaves the
\* player's cooldown as it is
handle_combat_free_miss(p, ms, gi, mouse, rolls, loot) ==
    LET attacking == mouse /\ can_attack(p)
    IN  Then(IF attacking /\ InAttackRange(ms, p) # {} THEN player_attack(p)
             ELSE p, LAMBDA p1 :
        Then(IF attacking THEN strike(ms, p, rolls) ELSE ms, LAMBDA ms1 :
        Then(IF attacking THEN Ascending(DeadSet(ms, p, rolls)) ELSE << >>,
             LAMBDA dead_indices :
        Then(remove_dead(ms1, gi, dead_indices, Len(dead_indices), loot),
             LAMBDA rem :
        Then(monsters_attack(p1, rem.monsters, 1, << >>), LAMBDA att :
        [player |-> att.player, monsters |-> att.monsters,
         ground_items |-> rem.ground_items, hits |-> att.hits,
         attacked |-> attacking, kills |-> Len(dead_indices)])))))

\* Game::handle_combat; mouse is is_mouse_button_pressed(Left), rolls and
\* loot are the RNG's damage and loot rolls
handle_combat(p, ms, gi, mouse, rolls, loot) ==
    LET attacking == mouse /\ can_attack(p)
    IN  Then(IF attacking THEN player_attack(p) ELSE p, LAMBDA p1 :
        Then(IF attacking THEN strike(ms, p, rolls) ELSE ms, LAMBDA ms1 :
        Then(IF attacking THEN Ascending(DeadSet(ms, p, rolls)) ELSE << >>,
             LAMBDA dead_indices :
        Then(remove_dead(ms1, gi, dead_indices, Len(dead_indices), loot),
             LAMBDA rem :
        Then(monsters_attack(p1, rem.monsters, 1, << >>), LAMBDA att :
        [player |-> att.player, monsters |-> att.monsters,
         ground_items |-> rem.ground_items, hits |-> att.hits,
         attacked |-> attacking, kills |-> Len(dead_indices)])))))

----------------------------------------------------------------------------
(* main.rs: check_item_pickup and FloatingText *)

\* Item::name
item_name(item) ==
    IF item = Armor("Leather") THEN "Leather Armor" ELSE item[2]

\* FloatingText::new (max_lifetime is the constant 1.0)
FloatingTextNew(text, world_x, world_y) ==
    [text |-> text, world_x |-> world_x, world_y |-> world_y, offset_y |-> 0,
     lifetime |-> Second]

\* FloatingText::update
floating_text_update(t, dt) ==
    [t EXCEPT !.lifetime = t.lifetime - dt, !.offset_y = t.offset_y + 30 * dt]

\* an expiry that keeps a text whose lifetime is exactly 0
is_expired_strict(t) == t.lifetime < 0

\* FloatingText::is_expired
is_expired(t) == t.lifetime <= 0

\* a scan that leaves an item lying at exactly 0.5 from the player
RECURSIVE pickup_scan_strict(_, _, _, _, _)
pickup_scan_strict(p, gi, i, items, picked) ==
    IF i > Len(gi) THEN [items |-> items, picked |-> picked]
    ELSE IF WithinDist(gi[i].x - p.x, gi[i].y - p.y, Tile \div 2)
            /\ ~((gi[i].x - p.x) * (gi[i].x - p.x)
                   + (gi[i].y - p.y) * (gi[i].y - p.y)
                 = (Tile \div 2) * (Tile \div 2))
            /\ add_item(items, gi[i].item).ret
    THEN pickup_scan_strict(p, gi, i + 1, add_item(items, gi[i].item).items,
                            Append(picked, <<i, item_name(gi[i].item)>>))
    ELSE pickup_scan_strict(p, gi, i + 1, items, picked)

\* main.rs:286-297: items within 0.5 are added while the inventory takes them
RECURSIVE pickup_scan(_, _, _, _, _)
pickup_scan(p, gi, i, items, picked) ==
    IF i > Len(gi) THEN [items |-> items, picked |-> picked]
    ELSE IF WithinDist(gi[i].x - p.x, gi[i].y - p.y, Tile \div 2)
            /\ add_item(items, gi[i].item).ret
    THEN pickup_scan(p, gi, i + 1, add_item(items, gi[i].item).items,
                     Append(picked, <<i, item_name(gi[i].item)>>))
    ELSE pickup_scan(p, gi, i + 1, items, picked)

\* main.rs:299-308: picked_items.into_iter().rev()
RECURSIVE pickup_remove(_, _, _, _, _)
pickup_remove(p, gi, ft, picked, k) ==
    IF k = 0 THEN [ground_items |-> gi, floating_texts |-> ft]
    ELSE pickup_remove(p, VecRemove(gi, picked[k][1] - 1),
             Append(ft, FloatingTextNew(<<"Picked up ", picked[k][2], "!">>,
                                        p.x, p.y)),
             picked, k - 1)

\* a pickup that clears every item within 0.5 off the ground, taken or not
check_item_pickup_clear_near(p, gi, ft) ==
    Then(pickup_scan(p, gi, 1, p.inventory, << >>), LAMBDA scan :
    Then(pickup_remove(p, gi, ft, scan.picked, Len(scan.picked)),
         LAMBDA removal :
    [player |-> [p EXCEPT !.inventory = scan.items],
     ground_items |->
        SelectSeq(gi, LAMBDA it :
                         ~WithinDist(it.x - p.x, it.y - p.y, Tile \div 2)),
     floating_texts |-> removal.floating_texts,
     picked |-> Len(scan.picked)]))

\* Game::check_item_pickup
check_item_pickup(p, gi, ft) ==
    Then(pickup_scan(p, gi, 1, p.inventory, << >>), LAMBDA scan :
    Then(pickup_remove(p, gi, ft, scan.picked, Len(scan.picked)),
         LAMBDA removal :
    [player |-> [p EXCEPT !.inventory = scan.items],
     ground_items |-> removal.ground_items,
     floating_texts |-> removal.floating_texts,
     picked |-> Len(scan.picked)]))

----------------------------------------------------------------------------
(* main.rs: Game::new and the three frame handlers *)

\* the Game value of the current state
Game ==
    [state |-> state, player |-> player, world |-> world, camera |-> camera,
     monsters |-> monsters, ground_items |-> ground_items,
     spawned_chunks |-> spawned_chunks, floating_texts |-> floating_texts]

\* self becomes g
SetGame(g) ==
    /\ state' = g.state
    /\ player' = g.player
    /\ world' = g.world
    /\ camera' = g.camera
    /\ monsters' = g.monsters
    /\ ground_items' = g.ground_items
    /\ spawned_chunks' = g.spawned_chunks
    /\ floating_texts' = g.floating_texts

\* Game::new(); field is the noise field seed 12345 selects, idxs the
\* species rolls of the initial spawn
GameNew(field, idxs) ==
    Then(spawn_monsters_around_player({}, << >>, WorldNew(WORLD_SEED, field),
                                      PlayerNew(0, 0), idxs),
         LAMBDA sp :
         [state |-> "Playing", player |-> PlayerNew(0, 0),
          world |-> WorldNew(WORLD_SEED, field), camera |-> CameraNew,
          monsters |-> sp.monsters, ground_items |-> << >>,
          spawned_chunks |-> sp.spawned_chunks, floating_texts |-> << >>])

\* a frame that visits the spawn frontier before it moves the player
playing_move_spawn_first(g, keys, dt, idxs) ==
    Then(player_update(g.player, keys, dt), LAMBDA p1 :
    Then(spawn_monsters_around_player(g.spawned_chunks, g.monsters, g.world,
                                      g.player, idxs),
         LAMBDA sp :
         [g EXCEPT !.player = p1,
                   !.camera = follow(g.camera, p1.x, p1.y, dt),
                   !.spawned_chunks = sp.spawned_chunks,
                   !.monsters = [i \in 1..Len(sp.monsters) |->
                                    monster_update(sp.monsters[i], dt,
                                                   p1.x, p1.y)]]))

\* update_playing, main.rs:171-185: player, camera, spawn frontier, monsters
playing_move(g, keys, dt, idxs) ==
    Then(player_update(g.player, keys, dt), LAMBDA p1 :
    Then(spawn_monsters_around_player(g.spawned_chunks, g.monsters, g.world,
                                      p1, idxs),
         LAMBDA sp :
         [g EXCEPT !.player = p1,
                   !.camera = follow(g.camera, p1.x, p1.y, dt),
                   !.spawned_chunks = sp.spawned_chunks,
                   !.monsters = [i \in 1..Len(sp.monsters) |->
                                    monster_update(sp.monsters[i], dt,
                                                   p1.x, p1.y)]]))

is_live(t) == ~is_expired(t)

\* a frame end that leaves the state as it is
death_check_skipped(g) == g

\* update_playing, main.rs:199-202: the death check
death_check(g) ==
    IF g.player.health <= 0 THEN [g EXCEPT !.state = "GameOver"] ELSE g

\* update_playing, main.rs:187-202: combat, pickup, floating texts, death
playing_resolve(g, dt, mouse, rolls, loot) ==
    Then(handle_combat(g.player, g.monsters, g.ground_items, mouse, rolls,
                       loot),
         LAMBDA c :
    Then(check_item_pickup(c.player, c.ground_items, g.floating_texts),
         LAMBDA pk :
    Then([i \in 1..Len(pk.floating_texts) |->
             floating_text_update(pk.floating_texts[i], dt)],
         LAMBDA texts :
    Then([g EXCEPT !.player = pk.player,
                   !.monsters = c.monsters,
                   !.ground_items = pk.ground_items,
                   !.floating_texts = SelectSeq(texts, is_live)],
         LAMBDA g2 : death_check(g2)))))

\* a frame that looks at the I key only after the simulation step (in which
\* the player does not attack)
update_playing_late_key(g, key_i, keys, dt, mouse, idxs, rolls, loot) ==
    Then(playing_move(g, keys, dt, idxs), LAMBDA g1 :
    Then(playing_resolve(g1, dt, FALSE, rolls, loot), LAMBDA g2 :
    IF key_i /\ g2.state = "Playing" THEN [g2 EXCEPT !.state = "Inventory"]
    ELSE g2))

\* Game::update_playing; key_i is is_key_pressed(I), dt is get_frame_time()
update_playing(g, key_i, keys, dt, mouse, idxs, rolls, loot) ==
    IF key_i THEN [g EXCEPT !.state = "Inventory"]
    ELSE Then(playing_move(g, keys, dt, idxs), LAMBDA g1 :
              playing_resolve(g1, dt, mouse, rolls, loot))

\* an inventory screen that only the I key closes
update_inventory_no_escape(g, key_i, key_escape, slot) ==
    IF key_i THEN [g EXCEPT !.state = "Playing"]
    ELSE [g EXCEPT !.player = equip_click(g.player, slot)]

\* an inventory screen on which the floating texts go on ageing, by 16 ms
update_inventory_ageing_texts(g, key_i, key_escape, slot) ==
    IF key_i \/ key_escape THEN [g EXCEPT !.state = "Playing"]
    ELSE [g EXCEPT !.player = equip_click(g.player, slot),
                   !.floating_texts =
                       [i \in 1..Len(g.floating_texts) |->
                           floating_text_update(g.floating_texts[i], 16)]]

\* Game::update_inventory; slot is what get_clicked_slot returned
update_inventory(g, key_i, key_escape, slot) ==
    IF key_i \/ key_escape THEN [g EXCEPT !.state = "Playing"]
    ELSE [g EXCEPT !.player = equip_click(g.player, slot)]

\* a GameOver screen that clears the monsters away while it waits
update_game_over_clearing(g, confirm, idxs) ==
    IF confirm THEN GameNew(g.world.field, idxs)
    ELSE [g EXCEPT !.monsters = << >>]

\* a restart that hands the old inventory to the new player
update_game_over_keep_inventory(g, confirm, idxs) ==
    IF confirm
    THEN [GameNew(g.world.field, idxs) EXCEPT
             !.player.inventory = g.player.inventory]
    ELSE g

\* Game::update_game_over; confirm is Space or Enter pressed
update_game_over(g, confirm, idxs) ==
    IF confirm THEN GameNew(g.world.field, idxs) ELSE g

----------------------------------------------------------------------------
(* The frame actions: one call of Game::update with its inputs *)

\* the direction keys held down and the frame times the frames draw from
KeySets == {{}, {"D"}}
DtSet == {500}

\* the species rolls one visit of the spawn loops draws for the chunks S;
\* the frames explore the visits in which every chunk draws the same value
RollVectors(S) == {[c \in S |-> roll] : roll \in SpeciesRolls}

\* history of the cooldowns: the Playing-frame time in ms since the last
\* attack of the current player (since_attack) and of any player of the
\* process (since_attack_any), and since the last hit of each monster
\* (mon_since, in the order of the monster list); -1 stands for no attack or
\* hit so far.  attack_gap, attack_gap_any and hit_gaps are these times as
\* they were when the frame's attack and hits happened.  attacks counts the
\* attacks of the current player.  strikes lists, for a frame in which the
\* player attacked, every monster of the list as it was when combat began:
\* its place, its offset from the player, its species and its health before
\* and after the loop of main.rs:238-251; weapon is the weapon of that
\* attack, and dropped the ground items the frame's kills pushed.
PrevSince(field) == IF field \in DOMAIN last THEN last[field] ELSE -1

PrevAttacks == IF "attacks" \in DOMAIN last THEN last.attacks ELSE 0

PrevMonSince ==
    IF "mon_since" \in DOMAIN last THEN last.mon_since
    ELSE [i \in 1..Len(monsters) |-> -1]

Aged(t, dt) == IF t = -1 THEN -1 ELSE t + dt

\* the history after a frame that runs no combat and keeps the game
IdleHistory ==
    [since_attack |-> PrevSince("since_attack"),
     since_attack_any |-> PrevSince("since_attack_any"),
     attack_gap |-> -1, attack_gap_any |-> -1,
     mon_since |-> PrevMonSince, hit_gaps |-> << >>,
     attacks |-> PrevAttacks, weapon |-> player.weapon,
     strikes |-> << >>, dropped |-> << >>]

\* the history after a restart that created the monsters ms
RestartHistory(ms) ==
    [since_attack |-> -1,
     since_attack_any |-> PrevSince("since_attack_any"),
     attack_gap |-> -1, attack_gap_any |-> -1,
     mon_since |-> [i \in 1..Len(ms) |-> -1], hit_gaps |-> << >>,
     attacks |-> 0, weapon |-> PlayerNew(0, 0).weapon,
     strikes |-> << >>, dropped |-> << >>]

\* the history after a Playing frame of length dt in which the monster list
\* was ms and the player p when combat began, the player attacked or not,
\* the loop of main.rs:238-251 left the monsters as struck, the monsters at
\* the places dead were removed, the kills pushed the ground items dropped
\* and the survivors landed hits
CombatHistory(dt, p, ms, struck, attacking, dead, dropped, hits) ==
    LET aged == [i \in 1..Len(ms) |->
                    IF i <= Len(PrevMonSince) THEN Aged(PrevMonSince[i], dt)
                    ELSE -1]
        survivors == Ascending((1..Len(ms)) \ dead)
        attackers == {hits[k].attacker : k \in 1..Len(hits)}
        since == Aged(PrevSince("since_attack"), dt)
        since_any == Aged(PrevSince("since_attack_any"), dt)
    IN  [since_attack |-> IF attacking THEN 0 ELSE since,
         since_attack_any |-> IF attacking THEN 0 ELSE since_any,
         attack_gap |-> IF attacking THEN since ELSE -1,
         attack_gap_any |-> IF attacking THEN since_any ELSE -1,
         mon_since |-> [j \in 1..Len(survivors) |->
                          IF j \in attackers THEN 0 ELSE aged[survivors[j]]],
         hit_gaps |-> [k \in 1..Len(hits) |->
                          aged[survivors[hits[k].attacker]]],
         attacks |-> PrevAttacks + (IF attacking THEN 1 ELSE 0),
         weapon |-> p.weapon,
         strikes |-> IF attacking
                     THEN [i \in 1..Len(ms) |->
                             [x |-> ms[i].x, y |-> ms[i].y,
                              dx |-> ms[i].x - p.x, dy |-> ms[i].y - p.y,
                              monster_type |-> ms[i].monster_type,
                              health_before |-> ms[i].health,
                              health_after |-> struck[i].health]]
                     ELSE << >>,
         dropped |-> dropped]

\* the history record of a frame
FrameRecord(key_i, key_escape, confirm, slot, keys, dt, mouse, hits,
            attacked, kills, history) ==
    [op |-> "update", state |-> state, key_i |-> key_i,
     key_escape |-> key_escape, confirm |-> confirm, slot |-> slot,
     keys |-> keys, dt |-> dt, mouse |-> mouse, hits |-> hits,
     attacked |-> attacked, kills |-> kills,
     health |-> player.health, count |-> Len(player.inventory),
     since_attack |-> history.since_attack,
     since_attack_any |-> history.since_attack_any,
     attack_gap |-> history.attack_gap,
     attack_gap_any |-> history.attack_gap_any,
     mon_since |-> history.mon_since, hit_gaps |-> history.hit_gaps,
     attacks |-> history.attacks, weapon |-> history.weapon,
     strikes |-> history.strikes, dropped |-> history.dropped]

\* a frame in state Playing, while fewer than n operations were performed;
\* a frame that sees the I key returns before it reads the other inputs:
\* the mouse button may be down in such a frame, and no one asks
UpdatePlayingFrame(n, keysets, dts) ==
    /\ state = "Playing"
    /\ steps < n
    /\ \E key_i \in BOOLEAN :
       \E keys \in (IF key_i THEN {{}} ELSE keysets), dt \in dts,
          mouse \in BOOLEAN :
       \E p1 \in {player_update(player, keys, dt)} :
       \E idxs \in RollVectors(IF key_i THEN {}
                                ELSE SpawningChunks(spawned_chunks, world, p1)) :
       \E g1 \in {playing_move(Game, keys, dt, idxs)} :
       \E attacking \in {~key_i /\ mouse /\ can_attack(g1.player)} :
       \E rolls \in [(IF attacking THEN InAttackRange(g1.monsters, g1.player)
                      ELSE {}) -> WeaponRolls(g1.player.weapon)] :
       \E loot \in [(IF attacking THEN DeadSet(g1.monsters, g1.player, rolls)
                     ELSE {}) -> LootRolls] :
       \E c \in {handle_combat(g1.player, g1.monsters, g1.ground_items,
                               attacking, rolls, loot)} :
       \E g2 \in {IF key_i THEN update_playing(Game, key_i, keys, dt, mouse,
                                               idxs, rolls, loot)
                  ELSE playing_resolve(g1, dt, mouse, rolls, loot)} :
          /\ SetGame(g2)
          /\ last' = FrameRecord(key_i, FALSE, FALSE, NoClick, keys, dt, mouse,
                                 IF key_i THEN << >> ELSE c.hits,
                                 attacking,
                                 IF key_i THEN 0 ELSE c.kills,
                                 IF key_i THEN IdleHistory
                                 ELSE CombatHistory(dt, g1.player, g1.monsters,
                                          IF attacking
                                          THEN strike(g1.monsters, g1.player,
                                                      rolls)
                                          ELSE g1.monsters,
                                          attacking, DOMAIN loot,
                                          SubSeq(c.ground_items,
                                                 Len(g1.ground_items) + 1,
                                                 Len(c.ground_items)),
                                          c.hits))
          /\ steps' = steps + 1
          /\ spawn_history' =
                IF key_i THEN spawn_history
                ELSE spawn_history \cup
                     SpawnRecords(spawned_chunks, world, p1, idxs)

\* a frame in state Playing with the keys and frame times of KeySets, DtSet
UpdatePlayingWithin(n) == UpdatePlayingFrame(n, KeySets, DtSet)

\* a frame in state Inventory; the click is read only if neither key is seen
UpdateInventoryWithin(n) ==
    /\ state = "Inventory"
    /\ steps < n
    /\ \E key_i \in BOOLEAN :
       \E key_escape \in (IF key_i THEN {FALSE} ELSE BOOLEAN) :
       \E slot \in (IF key_i \/ key_escape THEN {NoClick}
                    ELSE {NoClick} \cup (0..(INVENTORY_SIZE - 1))) :
       \E g2 \in {update_inventory(Game, key_i, key_escape, slot)} :
          /\ SetGame(g2)
          /\ last' = FrameRecord(key_i, key_escape, FALSE, slot, {}, 0, FALSE,
                                 << >>, FALSE, 0, IdleHistory)
          /\ steps' = steps + 1
          /\ UNCHANGED spawn_history

\* a frame in state GameOver
UpdateGameOverWithin(n) ==
    /\ state = "GameOver"
    /\ steps < n
    /\ \E confirm \in BOOLEAN :
       \E idxs \in RollVectors(IF confirm
                                THEN SpawningChunks({}, world, PlayerNew(0, 0))
                                ELSE {}) :
       \E g2 \in {update_game_over(Game, confirm, idxs)} :
          /\ SetGame(g2)
          /\ last' = FrameRecord(FALSE, FALSE, confirm, NoClick, {}, 0, FALSE,
                                 << >>, FALSE, 0,
                                 IF confirm THEN RestartHistory(g2.monsters)
                                 ELSE IdleHistory)
          /\ steps' = steps + 1
          /\ spawn_history' =
                IF confirm
                THEN spawn_history \cup
                     SpawnRecords({}, world, PlayerNew(0, 0), idxs)
                ELSE spawn_history

----------------------------------------------------------------------------
(* Specification SpecInv: the inventory and equipment operations of a      *)
(* player in the Inventory screen, called directly and through the frame   *)

\* the inventories the player starts with are the prefixes of this one
InventoryPattern ==
    << Weapon("Axe"), Armor("Leather"), Weapon("Mace"), Armor("Platemail"),
       Weapon("Sword"), Armor("Chainmail"), Weapon("Axe"), Armor("Leather") >>
InitInventoryLens == {0, 1, 7, 8}

\* Game::new() in the world of noise field 0, first species everywhere
NewGame0 ==
    GameNew(0, [c \in SpawningChunks({}, [seed |-> WORLD_SEED, field |-> 0],
                                     [x |-> 0, y |-> 0]) |-> 0])

InitInv ==
    \E w \in WeaponTypes, a \in {NoArmor} \cup ArmorTypes,
       n \in InitInventoryLens :
       \E g \in {NewGame0} :
           /\ state = "Inventory"
           /\ player = [g.player EXCEPT !.weapon = w, !.armor = a,
                           !.inventory = SubSeq(InventoryPattern, 1, n)]
           /\ world = g.world
           /\ camera = g.camera
           /\ monsters = g.monsters
           /\ ground_items =
                 << [x |-> 400, y |-> 300, item |-> Weapon("Mace")],
                    [x |-> 600, y |-> 0, item |-> Weapon("Axe")],
                    [x |-> 0, y |-> 0, item |-> Armor("Chainmail")] >>
           /\ spawned_chunks = g.spawned_chunks
           /\ floating_texts = << >>
           /\ last = [op |-> "new"]
           /\ steps = 0
           /\ spawn_history = {}

\* self.player.inventory.add_item(item)
CallAddItem ==
    /\ steps < MaxInvCalls
    /\ \E item \in Items :
          LET r == add_item(player.inventory, item)
          IN  /\ player' = [player EXCEPT !.inventory = r.items]
              /\ last' = [op |-> "add_item", item |-> item, ret |-> r.ret,
                          count |-> Len(player.inventory)]
    /\ steps' = steps + 1
    /\ UNCHANGED <<state, world, camera, monsters, ground_items,
                   spawned_chunks, floating_texts, spawn_history>>

\* self.player.inventory.remove_item(index)
CallRemoveItem ==
    /\ steps < MaxInvCalls
    /\ \E index \in 0..INVENTORY_SIZE :
          LET r == remove_item(player.inventory, index)
          IN  /\ player' = [player EXCEPT !.inventory = r.items]
              /\ last' = [op |-> "remove_item", index |-> index, ret |-> r.ret,
                          count |-> Len(player.inventory)]
    /\ steps' = steps + 1
    /\ UNCHANGED <<state, world, camera, monsters, ground_items,
                   spawned_chunks, floating_texts, spawn_history>>

\* self.player.equip_item(item)
CallEquipItem ==
    /\ steps < MaxInvCalls
    /\ \E item \in Items :
          LET e == equip_item(player, item)
          IN  /\ player' = e.player
              /\ last' = [op |-> "equip_item", item |-> item, ret |-> e.ret,
                          count |-> Len(player.inventory)]
    /\ steps' = steps + 1
    /\ UNCHANGED <<state, world, camera, monsters, ground_items,
                   spawned_chunks, floating_texts, spawn_history>>

\* self.check_item_pickup()
CallCheckItemPickup ==
    /\ steps < MaxInvCalls
    /\ LET r == check_item_pickup(player, ground_items, floating_texts)
       IN  /\ player' = r.player
           /\ ground_items' = r.ground_items
           /\ floating_texts' = r.floating_texts
           /\ last' = [op |-> "check_item_pickup", picked |-> r.picked,
                       count |-> Len(player.inventory)]
    /\ steps' = steps + 1
    /\ UNCHANGED <<state, world, camera, monsters, spawned_chunks,
                   spawn_history>>

InvUpdateInventory == UpdateInventoryWithin(MaxInvCalls)

NextInv ==
    \/ CallAddItem
    \/ CallRemoveItem
    \/ CallEquipItem
    \/ CallCheckItemPickup
    \/ InvUpdateInventory

SpecInv == InitInv /\ [][NextInv]_vars

\* C5: inventory capacity.  After any sequence of add_item, remove_item,
\* ground pickups and equip clicks the inventory holds at most 8 items, and
\* add_item on an inventory of 8 items returns false and leaves the inventory
\* (and the rest of the player) unchanged, so a 9th add fails with count 8.
C5_InventoryCapacity ==
    /\ [](count(player.inventory) <= INVENTORY_SIZE)
    /\ [][(last'.op = "add_item" /\ count(player.inventory) = INVENTORY_SIZE)
             => (last'.ret = FALSE /\ player' = player)]_vars

\* an add_item on a full inventory has returned false
C5_Witness ==
    /\ last.op = "add_item"
    /\ last.count = INVENTORY_SIZE
    /\ last.ret = FALSE
    /\ count(player.inventory) = INVENTORY_SIZE

\* how many copies of item the player p holds: in the inventory, as the
\* equipped weapon, as the equipped armor
C6_Held(p, item) ==
    Cardinality({i \in 1..Len(p.inventory) : p.inventory[i] = item})
    + (IF item = Weapon(p.weapon) THEN 1 ELSE 0)
    + (IF p.armor # NoArmor /\ item = Armor(p.armor) THEN 1 ELSE 0)

\* C6: an equip click never loses or duplicates an item.  Across every frame
\* in the Inventory state, whatever slot is clicked and however full the
\* inventory is, the multiset of the items the player holds (inventory,
\* equipped weapon, equipped armor if any) is the same before and after.
C6_EquipClickKeepsItems ==
    [][(last'.op = "update" /\ state = "Inventory")
          => \A item \in Items : C6_Held(player', item) = C6_Held(player, item)]_vars

\* a frame has clicked an occupied slot of a full inventory and equipped it
C6_Witness ==
    /\ last.op = "update"
    /\ last.state = "Inventory"
    /\ ~last.key_i
    /\ ~last.key_escape
    /\ last.slot # NoClick
    /\ last.count = INVENTORY_SIZE
    /\ state = "Inventory"

\* C7: equip swap.  equip_item with a weapon returns the previously equipped
\* weapon (never none) and the weapon slot is never empty; with armor on an
\* unarmored player it returns none; with armor on an armored player it
\* returns exactly the previously equipped armor; in every case the new item
\* is the one equipped afterwards (and the other slot is untouched).
C7_EquipSwap ==
    /\ [](player.weapon \in WeaponTypes)
    /\ [][last'.op = "equip_item"
             => /\ (last'.item[1] = "Weapon"
                      => /\ last'.ret = Weapon(player.weapon)
                         /\ last'.ret # NoItem
                         /\ player'.weapon = last'.item[2]
                         /\ player'.armor = player.armor)
                /\ ((last'.item[1] = "Armor" /\ player.armor = NoArmor)
                      => last'.ret = NoItem)
                /\ ((last'.item[1] = "Armor" /\ player.armor # NoArmor)
                      => last'.ret = Armor(player.armor))
                /\ (last'.item[1] = "Armor"
                      => /\ player'.armor = last'.item[2]
                         /\ player'.weapon = player.weapon)]_vars

\* equip_item has put armor on an armored player and returned the old piece
C7_Witness ==
    /\ last.op = "equip_item"
    /\ last.item[1] = "Armor"
    /\ last.ret[1] = "Armor"
    /\ player.armor = last.item[2]

\* C8: remove_item with an index >= the inventory length returns nothing and
\* leaves the inventory and the equipped items unchanged; so does a frame
\* whose click lands on an empty slot.
C8_RemoveOutOfRange ==
    [][/\ (last'.op = "remove_item" /\ last'.index >= count(player.inventory))
             => (last'.ret = NoItem /\ player' = player)
       /\ (/\ last'.op = "update"
           /\ state = "Inventory"
           /\ ~last'.key_i
           /\ ~last'.key_escape
           /\ last'.slot # NoClick
           /\ last'.slot >= count(player.inventory))
             => (player' = player /\ state' = "Inventory")]_vars

\* remove_item was called past the end of a non-empty inventory
C8_Witness ==
    /\ last.op = "remove_item"
    /\ last.count > 0
    /\ last.index >= last.count
    /\ last.ret = NoItem
    /\ count(player.inventory) = last.count

----------------------------------------------------------------------------
(* Specification SpecPlay: frames of a game in progress.  The game starts  *)
(* from a snapshot in which the monster of chunk (0,-2) has closed in on   *)
(* the player, who may have been hurt and may have looted and equipped     *)
(* armor and a mace from two earlier kills.                                *)

InitPlay ==
    \E looted \in BOOLEAN, h \in {PLAYER_MAX_HEALTH, 1}, roll \in SpeciesRolls :
    \E a \in (IF looted THEN ArmorTypes ELSE {NoArmor}) :
    \E g \in {NewGame0} :
       LET earlier_kills == IF looted THEN 2 ELSE 0
           nearest == g.monsters[1]
           species == random_for_terrain(
                          get_terrain_at(g.world, nearest.x, nearest.y), roll)
           chaser == MonsterNew(300, -400, species)
           others == SubSeq(g.monsters, 2 + earlier_kills, Len(g.monsters))
       IN  /\ state = "Playing"
           /\ player = [g.player EXCEPT
                           !.armor = a, !.health = h,
                           !.weapon = IF looted THEN "Mace" ELSE "Sword",
                           !.inventory = IF looted THEN << Weapon("Sword") >>
                                         ELSE << >>]
           /\ world = g.world
           /\ camera = g.camera
           /\ monsters = <<chaser>> \o others
           /\ ground_items = << >>
           /\ spawned_chunks = g.spawned_chunks
           /\ floating_texts = << >>
           /\ last = [op |-> "new"]
           /\ steps = 0
           /\ spawn_history = {}

UpdatePlaying == UpdatePlayingWithin(MaxFrames)
UpdateInventory == UpdateInventoryWithin(MaxFrames)
UpdateGameOver == UpdateGameOverWithin(MaxFrames)

\* Game::update: the handler of the current state runs
NextPlay ==
    \/ UpdatePlaying
    \/ UpdateInventory
    \/ UpdateGameOver

SpecPlay == InitPlay /\ [][NextPlay]_vars

\* C3: a monster's hit applies the armor reduction exactly once.  For every
\* hit a frame's monsters land, whatever the species S and the armor A (or
\* none), the player's health after the hit is
\* max(health - max(base_damage(S) - damage_reduction(A), 1), 0).
C3_ArmorAppliedOnce ==
    last.op = "update" =>
        \A i \in 1..Len(last.hits) :
            last.hits[i].health_after
               = Max(last.hits[i].health_before
                       - Max(base_damage(last.hits[i].monster_type)
                               - C4_Reduction(last.hits[i].armor), 1), 0)

\* C9: the top-level state machine.  A frame in Playing goes to Inventory on
\* the I key, else to GameOver when the player's health has reached 0, else
\* stays; a frame in Inventory goes to Playing on I or Escape, else stays; a
\* frame in GameOver goes to Playing on Space or Enter, else stays.  There
\* are no other transitions: Inventory never goes to GameOver and GameOver
\* never goes to Inventory.
C9_StateMachine ==
    [][last'.op = "update"
          => /\ (state = "Playing"
                   => state' = IF last'.key_i THEN "Inventory"
                               ELSE IF player'.health = 0 THEN "GameOver"
                               ELSE "Playing")
             /\ (state = "Inventory"
                   => state' = IF last'.key_i \/ last'.key_escape
                               THEN "Playing" ELSE "Inventory")
             /\ (state = "GameOver"
                   => state' = IF last'.confirm THEN "Playing"
                               ELSE "GameOver")]_vars

\* the player has died and the game was restarted from the GameOver state
C9_Witness ==
    /\ last.op = "update"
    /\ last.state = "GameOver"
    /\ last.confirm
    /\ state = "Playing"

\* C10: the death transition.  At every frame boundary the state is GameOver
\* exactly if the player's health is 0 (so no Playing or Inventory frame
\* starts with a player at 0 health), and a player at 0 health stays at 0
\* until the game is restarted: it never regenerates.
C10_DeathTransition ==
    /\ [](state = "GameOver" <=> player.health = 0)
    /\ [][(player.health = 0 /\ ~(last'.op = "update" /\ last'.confirm))
             => player'.health = 0]_vars

\* a frame has passed in GameOver with the player at 0 health
C10_Witness ==
    /\ last.op = "update"
    /\ last.state = "GameOver"
    /\ ~last.confirm
    /\ state = "GameOver"
    /\ player.health = 0

\* the places of the monsters a freshly created world holds
C11_FreshPlaces ==
    [i \in 1..Len(NewGame0.monsters) |->
        <<NewGame0.monsters[i].x, NewGame0.monsters[i].y>>]

\* C11: restart is a full reset.  After the frame that leaves GameOver on
\* Space or Enter the player stands at (0,0) with health 50 of 50, the Sword,
\* no armor, an empty inventory and a ready cooldown; there are no ground
\* items and no floating texts; the camera is at (0,0); spawned_chunks is the
\* 7 x 7 square of chunks around the origin and the monsters are those of a
\* freshly created world, unhurt and ready.
C11_RestartFullReset ==
    [][(last'.op = "update" /\ state = "GameOver" /\ last'.confirm)
          => /\ state' = "Playing"
             /\ player' = [x |-> 0, y |-> 0, health |-> 50, max_health |-> 50,
                           weapon |-> "Sword", armor |-> NoArmor,
                           inventory |-> << >>, attack_cooldown |-> 0,
                           regen_timer |-> 0, facing |-> "UpRight"]
             /\ ground_items' = << >>
             /\ floating_texts' = << >>
             /\ camera' = [x |-> 0, y |-> 0]
             /\ world' = world
             /\ spawned_chunks' = ((-3)..3) \X ((-3)..3)
             /\ Len(monsters') = Len(C11_FreshPlaces)
             /\ \A i \in 1..Len(monsters') :
                   /\ <<monsters'[i].x, monsters'[i].y>> = C11_FreshPlaces[i]
                   /\ monsters'[i].health = max_health(monsters'[i].monster_type)
                   /\ monsters'[i].attack_cooldown = 0
                   /\ \E k \in 1..2 :
                         monsters'[i].monster_type =
                            for_terrain(get_terrain_at(world, monsters'[i].x,
                                                       monsters'[i].y))[k]]_vars

\* a player who died holding an item has restarted with an empty inventory
C11_Witness ==
    /\ last.op = "update"
    /\ last.state = "GameOver"
    /\ last.confirm
    /\ last.count > 0
    /\ last.health = 0
    /\ player.inventory = << >>
    /\ player.health = 50

\* C12: already-dead monsters do not attack.  Every hit a frame's monsters
\* land comes from a monster whose health is above 0 after the player's
\* strike of that frame, and no monster of health 0 is left in the game at a
\* frame boundary, so a killed monster deals no damage in the frame of its
\* death or in any later frame.
C12_DeadDoNotAttack ==
    /\ \A i \in 1..Len(monsters) : monsters[i].health > 0
    /\ (last.op = "update" =>
           \A i \in 1..Len(last.hits) : last.hits[i].attacker_health > 0)

\* the player has killed a monster within reach and took no hit in the frame
C12_Witness ==
    /\ last.op = "update"
    /\ last.attacked
    /\ last.kills >= 1
    /\ last.hits = << >>
    /\ player.health = last.health

\* the squared distance of a ground item to the player p is at most 0.5^2
C13_Near(p, it) ==
    4 * ((it.x - p.x) * (it.x - p.x) + (it.y - p.y) * (it.y - p.y))
       <= Tile * Tile

\* the places of the ground items the pickup takes: the items within 0.5,
\* in the order of the list, as long as the inventory has a free slot
C13_Taken(p, gi) ==
    {i \in 1..Len(gi) :
        /\ C13_Near(p, gi[i])
        /\ Len(p.inventory)
              + Cardinality({j \in 1..(i - 1) : C13_Near(p, gi[j])}) < 8}

\* the display name of an item, as the claim's text shows it
C13_Name(item) ==
    CASE item = <<"Weapon", "Sword">> -> "Sword"
      [] item = <<"Weapon", "Axe">> -> "Axe"
      [] item = <<"Weapon", "Mace">> -> "Mace"
      [] item = <<"Armor", "Leather">> -> "Leather Armor"
      [] item = <<"Armor", "Chainmail">> -> "Chainmail"
      [] item = <<"Armor", "Platemail">> -> "Platemail"

\* C13: pickup.  check_item_pickup moves every ground item within 0.5 tile
\* of the player (0.5 included) into the inventory while the inventory has
\* a free slot: the items taken are appended to the inventory in their
\* order, exactly they leave the ground collection, and each produces one
\* floating text "Picked up <name>!" at the player's position with a full
\* lifetime; the items farther away, and everything else, are untouched.
C13_Pickup ==
    [][last'.op = "check_item_pickup" =>
          LET taken == C13_Taken(player, ground_items)
              left == {i \in 1..Len(ground_items) : i \notin taken}
              fresh == (Len(floating_texts) + 1)..Len(floating_texts')
          IN  /\ last'.picked = Cardinality(taken)
              /\ Len(player'.inventory)
                    = Len(player.inventory) + Cardinality(taken)
              /\ SubSeq(player'.inventory, 1, Len(player.inventory))
                    = player.inventory
              /\ \A i \in taken :
                    player'.inventory[Len(player.inventory)
                        + Cardinality({j \in taken : j <= i})] = ground_items[i].item
              /\ Len(ground_items') = Cardinality(left)
              /\ \A i \in left :
                    ground_items'[Cardinality({j \in left : j <= i})]
                       = ground_items[i]
              /\ Len(floating_texts') = Len(floating_texts) + Cardinality(taken)
              /\ SubSeq(floating_texts', 1, Len(floating_texts)) = floating_texts
              /\ \A k \in fresh :
                    /\ floating_texts'[k].world_x = player.x
                    /\ floating_texts'[k].world_y = player.y
                    /\ floating_texts'[k].lifetime = Second
                    /\ floating_texts'[k].offset_y = 0
              /\ \A item \in Items :
                    Cardinality({k \in fresh : floating_texts'[k].text
                           = <<"Picked up ", C13_Name(item), "!">>})
                    = Cardinality({i \in taken :
                           C13_Name(ground_items[i].item) = C13_Name(item)})
              /\ [player' EXCEPT !.inventory = player.inventory] = player
              /\ UNCHANGED <<state, world, camera, monsters, spawned_chunks>>]_vars

\* a pickup has taken the item lying at exactly 0.5 and left the far one
C13_Witness ==
    /\ last.op = "check_item_pickup"
    /\ last.picked >= 1
    /\ \E k \in 1..Len(floating_texts) :
          floating_texts[k].text = <<"Picked up ", "Mace", "!">>
    /\ \E i \in 1..Len(ground_items) : ground_items[i].x = 600
    /\ ~(\E i \in 1..Len(ground_items) : ground_items[i].x = 400)

\* C14: spawn frontier coverage.  At world creation and at every frame
\* boundary, every chunk (cx, cy) with |cx - pcx| <= 3 and |cy - pcy| <= 3,
\* where (pcx, pcy) is the floor of the player's position / 8, is a member
\* of spawned_chunks.
C14_SpawnFrontier ==
    LET pcx == player.x \div (8 * Tile)
        pcy == player.y \div (8 * Tile)
    IN  \A cx \in (pcx - 3)..(pcx + 3), cy \in (pcy - 3)..(pcy + 3) :
            <<cx, cy>> \in spawned_chunks

\* the player has walked out of the chunk of the origin and the frontier
\* has taken in chunks beyond the 7 x 7 square of the world's creation
C14_Witness ==
    /\ last.op = "update"
    /\ state = "Playing"
    /\ <<player.x \div (8 * Tile), player.y \div (8 * Tile)>> # <<0, 0>>
    /\ \E c \in spawned_chunks : c[1] > 3 \/ c[1] < -3 \/ c[2] > 3 \/ c[2] < -3

\* C15: start-area protection.  No monster spawn_chunk creates stands within
\* the 5-tile square centered on the world origin: never both |spawn_x| < 5
\* and |spawn_y| < 5, whatever the chunk coordinate.
C15_StartAreaProtected ==
    \A i \in 1..Len(monsters) :
        ~(/\ -5 * Tile < monsters[i].x
          /\ monsters[i].x < 5 * Tile
          /\ -5 * Tile < monsters[i].y
          /\ monsters[i].y < 5 * Tile)

\* chunk (0,0), whose hash asks for a monster at the origin, was processed
\* and holds no monster
C15_Witness ==
    /\ last.op = "spawn_chunk"
    /\ last.chunk = <<0, 0>>
    /\ ~last.was_spawned
    /\ WordMod5(ChunkHash(0, 0)) = 0
    /\ <<0, 0>> \in spawned_chunks
    /\ \A i \in 1..Len(monsters) : ChunkOf(monsters[i]) # <<0, 0>>

----------------------------------------------------------------------------
(* Specification SpecRegen: Player::update called on a hurt player who     *)
(* takes no damage, in steps of 1 ms or in frames of varying length        *)

\* the 1 ms steps run up to this many milliseconds
MaxRegenMs == 3001
\* the frames of varying length explored per behaviour
MaxRegenCalls == 4

\* the frame times of the varying frames, in ms
RegenDtSet == {300, 700, 1000, 1500, 2000, 2500}

InitRegen ==
    /\ state = "Playing"
    /\ player = [PlayerNew(0, 0) EXCEPT !.health = 40]
    /\ world = WorldNew(WORLD_SEED, 0)
    /\ camera = CameraNew
    /\ monsters = << >>
    /\ ground_items = << >>
    /\ spawned_chunks = {}
    /\ floating_texts = << >>
    /\ \E stepping \in {"ms", "frames"} :
          last = [op |-> "start", stepping |-> stepping, dt |-> 0,
                  elapsed |-> 0, start_health |-> 40]
    /\ steps = 0
    /\ spawn_history = {}

\* self.player.update(dt, &self.world) with no direction key down
CallPlayerUpdate ==
    /\ last.stepping = "ms" => last.elapsed < MaxRegenMs
    /\ last.stepping = "frames" => steps < MaxRegenCalls
    /\ \E dt \in (IF last.stepping = "ms" THEN {1} ELSE RegenDtSet) :
          /\ player' = player_update(player, {}, dt)
          /\ last' = [op |-> "player_update", stepping |-> last.stepping,
                      dt |-> dt, elapsed |-> last.elapsed + dt,
                      start_health |-> last.start_health]
    /\ steps' = steps + 1
    /\ UNCHANGED <<state, world, camera, monsters, ground_items,
                   spawned_chunks, floating_texts, spawn_history>>

NextRegen == CallPlayerUpdate

SpecRegen == InitRegen /\ [][NextRegen]_vars

\* C16 as stated: from health 40 of 50 with regen_timer 0 and no damage,
\* after exactly 2.999 s of updates in 1 ms steps the health is 41, and after
\* a further 0.002 s it is 42.
C16_RegenTiming ==
    last.stepping = "ms" =>
        /\ (last.elapsed = 2999 => player.health = 41)
        /\ (last.elapsed = 3001 => player.health = 42)

\* C16 amended: from health 40 of 50 with regen_timer 0 and no damage, after
\* exactly 2.999 s of updates in 1 ms steps the health is 42 (two ticks), and
\* after a further 0.002 s it is 43.
C16_RegenTimingAmended ==
    last.stepping = "ms" =>
        /\ (last.elapsed = 2999 => player.health = 42)
        /\ (last.elapsed = 3001 => player.health = 43)

\* 3.001 s of 1 ms steps have passed and the third tick has been granted
C16_Witness ==
    /\ last.op = "player_update"
    /\ last.stepping = "ms"
    /\ last.elapsed = 3001
    /\ steps = 3001
    /\ player.health = 43

\* C17: the regeneration rate is exactly 1 HP per second across variable
\* frame times.  After any sequence of updates with positive dt, from
\* regen_timer 0, with the health below max throughout and no damage, the HP
\* gained is the floor of the sum of the dt and the accumulator holds the
\* fractional remainder, also when a single dt is 2 seconds or more.
C17_RegenRate ==
    (last.op = "player_update" /\ player.health < player.max_health) =>
        /\ player.health - last.start_health = last.elapsed \div Second
        /\ player.regen_timer = last.elapsed % Second

\* C18: health bounds.  In every reachable state the player's health is
\* between 0 and max_health (50), and every monster's health is between 0
\* and the max_health of its species.
C18_HealthBounds ==
    /\ player.max_health = 50
    /\ 0 <= player.health
    /\ player.health <= player.max_health
    /\ \A i \in 1..Len(monsters) :
          /\ 0 <= monsters[i].health
          /\ monsters[i].health <= max_health(monsters[i].monster_type)
          /\ monsters[i].max_health = max_health(monsters[i].monster_type)

\* a hit worth more than the player's remaining health has left it at 0,
\* and a monster the player struck has survived below its full health
C18_Witness ==
    /\ last.op = "update"
    /\ player.health = 0
    /\ \E i \in 1..Len(last.hits) :
          /\ last.hits[i].armor = NoArmor
          /\ last.hits[i].health_before
                < base_damage(last.hits[i].monster_type)
          /\ last.hits[i].health_after = 0
    /\ \E i \in 1..Len(monsters) :
          monsters[i].health < max_health(monsters[i].monster_type)

----------------------------------------------------------------------------
(* Specification SpecCombat: frames of 0.2 s and 0.3 s of a player who     *)
(* stands still with a mace, a monster at 0.5 tile from the start          *)

\* frames explored per behaviour
MaxCombatFrames == 4

\* the frame times of these frames, in ms
CombatDtSet == {200, 300}

InitCombat ==
    \E h \in {PLAYER_MAX_HEALTH, 5}, roll \in SpeciesRolls :
    \E g \in {NewGame0} :
       LET nearest == g.monsters[1]
           species == random_for_terrain(
                          get_terrain_at(g.world, nearest.x, nearest.y), roll)
           chaser == MonsterNew(300, -400, species)
       IN  /\ state = "Playing"
           /\ player = [g.player EXCEPT !.health = h, !.weapon = "Mace"]
           /\ world = g.world
           /\ camera = g.camera
           /\ monsters = <<chaser>> \o SubSeq(g.monsters, 2, Len(g.monsters))
           /\ ground_items = << >>
           /\ spawned_chunks = g.spawned_chunks
           /\ floating_texts = << >>
           /\ last = [op |-> "new"]
           /\ steps = 0
           /\ spawn_history = {}

CombatUpdatePlaying == UpdatePlayingFrame(MaxCombatFrames, {{}}, CombatDtSet)
CombatUpdateInventory == UpdateInventoryWithin(MaxCombatFrames)
CombatUpdateGameOver == UpdateGameOverWithin(MaxCombatFrames)

NextCombat ==
    \/ CombatUpdatePlaying
    \/ CombatUpdateInventory
    \/ CombatUpdateGameOver

SpecCombat == InitCombat /\ [][NextCombat]_vars

\* a Playing frame has hurt or removed a monster
C19_MonsterDamaged ==
    \/ last'.kills > 0
    \/ \E i \in 1..Len(monsters) :
          i <= Len(monsters') /\ monsters'[i].health < monsters[i].health

\* C19 as stated: the player damages monsters in a frame only if the attack
\* input fired in that frame and attack_cooldown <= 0 (after the frame's own
\* decrement); the attack sets the cooldown to 0.3 s; between any two player
\* attacks the dt accumulated over the Playing frames from the first to the
\* second is at least 0.3 s.
C19_PlayerCooldown ==
    /\ [][(last'.op = "update" /\ state = "Playing" /\ C19_MonsterDamaged)
             => /\ last'.mouse
                /\ ~last'.key_i
                /\ last'.attacked
                /\ player.attack_cooldown - last'.dt <= 0]_vars
    /\ []((last.op = "update" /\ last.attacked)
             => /\ player.attack_cooldown = 300
                /\ (last.attack_gap_any = -1 \/ last.attack_gap_any >= 300))

\* C19 amended: as stated, for two attacks with no restart between them:
\* between any two attacks of the same game session the dt accumulated over
\* the Playing frames from the first to the second is at least 0.3 s.
C19_SessionCooldown ==
    /\ [][(last'.op = "update" /\ state = "Playing" /\ C19_MonsterDamaged)
             => /\ last'.mouse
                /\ ~last'.key_i
                /\ last'.attacked
                /\ player.attack_cooldown - last'.dt <= 0]_vars
    /\ []((last.op = "update" /\ last.attacked)
             => /\ player.attack_cooldown = 300
                /\ (last.attack_gap = -1 \/ last.attack_gap >= 300))

\* the player has attacked again exactly 0.3 s after an attack and hurt a
\* monster with it
C19_Witness ==
    /\ last.op = "update"
    /\ last.attacked
    /\ last.attack_gap = 300
    /\ \E i \in 1..Len(monsters) :
          monsters[i].health < max_health(monsters[i].monster_type)

\* C20: monster attack gating.  Every hit on the player comes from a monster
\* that is alive, has attack_cooldown <= 0 and stands within 1.0 tile of the
\* player; the hit sets that monster's cooldown to 0.5 s; the player loses
\* health only in a frame with a hit; and between two hits of the same
\* monster at least 0.5 s of Playing-frame dt have accumulated.
C20_MonsterAttackGated ==
    /\ [](last.op = "update" =>
             \A k \in 1..Len(last.hits) :
                /\ last.hits[k].attacker_health > 0
                /\ last.hits[k].attacker_cooldown <= 0
                /\ last.hits[k].attacker_dx * last.hits[k].attacker_dx
                      + last.hits[k].attacker_dy * last.hits[k].attacker_dy
                      <= Tile * Tile
                /\ monsters[last.hits[k].attacker].attack_cooldown = 500
                /\ (last.hit_gaps[k] = -1 \/ last.hit_gaps[k] >= 500))
    /\ [][(last'.op = "update" /\ player'.health < player.health)
             => (state = "Playing" /\ Len(last'.hits) > 0)]_vars

\* a monster has hit the player again exactly 0.5 s after its last hit
C20_Witness ==
    /\ last.op = "update"
    /\ \E k \in 1..Len(last.hits) :
          /\ last.hit_gaps[k] = 500
          /\ last.hits[k].health_after < last.hits[k].health_before

----------------------------------------------------------------------------
(* Frames of a fight: the player stands at the origin among four monsters.
   The first, already hurt, stands at distance 0.5; the second and the third
   (hurt) stand 3 tiles away and reach distance exactly 1.0 in a frame of
   0.5 s; the fourth stops just outside 1.0.  A player with the Sword, whose
   rolls are the most numerous, meets the first two only. *)

MaxFightFrames == 2

\* the frame time of these frames, in ms
FightDtSet == {500}

InitFight ==
    \E weapon \in WeaponTypes, h \in {PLAYER_MAX_HEALTH, 5} :
    \E g \in {NewGame0} :
       LET species == for_terrain(get_terrain_at(g.world, 0, 0))
           hurt(x, y) == [MonsterNew(x, y, species[1]) EXCEPT !.health = 5]
       IN  /\ state = "Playing"
           /\ player = [g.player EXCEPT !.health = h, !.weapon = weapon,
                                        !.inventory = << Weapon("Sword") >>]
           /\ world = g.world
           /\ camera = g.camera
           /\ monsters =
                 IF weapon = "Sword"
                 THEN << hurt(300, -400), MonsterNew(3 * Tile, 0, species[2]) >>
                 ELSE << hurt(300, -400),
                         MonsterNew(3 * Tile, 0, species[2]),
                         hurt(0, 3 * Tile),
                         MonsterNew(3 * Tile + 1, 0, species[2]) >>
           /\ ground_items = << >>
           /\ spawned_chunks = g.spawned_chunks
           /\ floating_texts = << >>
           /\ last = [op |-> "new"]
           /\ steps = 0
           /\ spawn_history = {}

FightUpdatePlaying == UpdatePlayingFrame(MaxFightFrames, {{}}, FightDtSet)
FightUpdateInventory == UpdateInventoryWithin(MaxFightFrames)
FightUpdateGameOver == UpdateGameOverWithin(MaxFightFrames)

NextFight ==
    \/ FightUpdatePlaying
    \/ FightUpdateInventory
    \/ FightUpdateGameOver

SpecFight == InitFight /\ [][NextFight]_vars

\* the monsters a logged attack found within 1.0 of the player
C21_InRange(e) == e.dx * e.dx + e.dy * e.dy <= Tile * Tile

\* the damage rolls of a weapon, as the claim lists them
C21_Range(w) ==
    IF w = "Sword" THEN 1..10 ELSE IF w = "Axe" THEN 5..8 ELSE {7}

\* C21: a player attack damages exactly the monsters at distance <= 1.0 of
\* the player (the boundary included) and no other monster, and each of them
\* takes a damage in the range of the equipped weapon (Sword 1..10, Axe 5..8,
\* Mace 7); a monster's health stops at 0.
C21_AttackRange ==
    "strikes" \in DOMAIN last =>
        \A i \in 1..Len(last.strikes) :
           LET e == last.strikes[i]
           IN  IF C21_InRange(e)
               THEN \E d \in C21_Range(last.weapon) :
                       e.health_after = Max(e.health_before - d, 0)
               ELSE e.health_after = e.health_before

\* an attack found a monster at exactly 1.0 and hurt it, and left a monster
\* just outside 1.0 alone
C21_Witness ==
    /\ "strikes" \in DOMAIN last
    /\ \E i \in 1..Len(last.strikes) :
          /\ last.strikes[i].dx * last.strikes[i].dx
               + last.strikes[i].dy * last.strikes[i].dy = Tile * Tile
          /\ last.strikes[i].health_after < last.strikes[i].health_before
    /\ \E i \in 1..Len(last.strikes) :
          /\ ~C21_InRange(last.strikes[i])
          /\ last.strikes[i].health_after = last.strikes[i].health_before

\* the places of the monsters that a logged attack left alive, in order
C26_Survivors ==
    Ascending({i \in 1..Len(last.strikes) : last.strikes[i].health_after > 0})

\* C26: after a frame in which the player attacked, the live monsters are
\* exactly the monsters that combat began with minus those whose health
\* reached 0, in their original order; and at every frame boundary every
\* live monster has health > 0.
C26_KillRemoval ==
    /\ \A i \in 1..Len(monsters) : monsters[i].health > 0
    /\ ("attacked" \in DOMAIN last /\ last.attacked) =>
          /\ Len(monsters) = Len(C26_Survivors)
          /\ \A j \in 1..Len(monsters) :
                LET e == last.strikes[C26_Survivors[j]]
                IN  /\ monsters[j].x = e.x
                    /\ monsters[j].y = e.y
                    /\ monsters[j].monster_type = e.monster_type
                    /\ monsters[j].health = e.health_after

\* an attack killed the first and the third of four monsters and left the
\* second and the fourth
C26_Witness ==
    /\ "attacked" \in DOMAIN last
    /\ last.attacked
    /\ Len(last.strikes) = 4
    /\ last.strikes[1].health_after = 0
    /\ last.strikes[2].health_after > 0
    /\ last.strikes[3].health_after = 0
    /\ last.strikes[4].health_after > 0
    /\ Len(monsters) = 2

\* how often e occurs in the sequence q
C27_Count(q, e) == Cardinality({i \in DOMAIN q : q[i] = e})

\* the places of the monsters a logged attack killed
C27_Killed(rec) ==
    {i \in 1..Len(rec.strikes) : rec.strikes[i].health_after = 0}

\* the items a frame dropped lie where monsters of that frame died, no two
\* of them with the same monster, and are the only new ground items
C27_DropsFromKills ==
    /\ Len(last'.dropped) <= last'.kills
    /\ \E f \in [1..Len(last'.dropped) -> C27_Killed(last')] :
          /\ \A a, b \in 1..Len(last'.dropped) : f[a] = f[b] => a = b
          /\ \A a \in 1..Len(last'.dropped) :
                /\ last'.dropped[a].x = last'.strikes[f[a]].x
                /\ last'.dropped[a].y = last'.strikes[f[a]].y
    /\ \A k \in 1..Len(ground_items') :
          C27_Count(ground_items', ground_items'[k])
             <= C27_Count(ground_items \o last'.dropped, ground_items'[k])
    /\ Len(ground_items') - Len(ground_items) <= last'.kills

\* the ground items that left the ground went into the inventory
C27_RemovedByPickup ==
    Len(ground_items) + Len(last'.dropped) - Len(ground_items')
       = IF state = "Playing"
         THEN Len(player'.inventory) - Len(player.inventory)
         ELSE 0

\* C27 as stated: each kill adds at most one ground item, at the place where
\* the monster died; ground items are created only by kills and removed only
\* by pickups; in any frame the ground collection grows by at most the
\* number of monsters killed in that frame.
C27_Loot ==
    [][last'.op = "update" => C27_DropsFromKills /\ C27_RemovedByPickup]_vars

\* C27 amended: as stated, except that a restart also removes ground items:
\* it leaves the ground empty.
C27_LootUntilRestart ==
    [][last'.op = "update" =>
          /\ C27_DropsFromKills
          /\ IF last'.confirm THEN ground_items' = << >>
             ELSE C27_RemovedByPickup]_vars

\* a frame killed two monsters, and an item one of them dropped lies where
\* it died, one tile from the player
C27_Witness ==
    /\ "dropped" \in DOMAIN last
    /\ last.kills = 2
    /\ last.dropped # << >>
    /\ \E k \in 1..Len(ground_items) :
          /\ ground_items[k].x = last.strikes[3].x
          /\ ground_items[k].y = last.strikes[3].y
          /\ ground_items[k] = last.dropped[Len(last.dropped)]

----------------------------------------------------------------------------
(* Frames of a duel: the player stands still with the Sword, and one Goblin
   stands at distance 0.5, where Monster::update leaves it.  The frames are
   Playing frames, with or without the attack input. *)

MaxDuelFrames == 11

\* the frame time of these frames, in ms
DuelDtSet == {500}

InitDuel ==
    \E g \in {NewGame0} :
       /\ state = "Playing"
       /\ player = g.player
       /\ world = g.world
       /\ camera = g.camera
       /\ monsters = << MonsterNew(300, -400, "Goblin") >>
       /\ ground_items = << >>
       /\ spawned_chunks = g.spawned_chunks
       /\ floating_texts = << >>
       /\ last = [op |-> "new"]
       /\ steps = 0
       /\ spawn_history = {}

DuelUpdatePlaying == UpdatePlayingFrame(MaxDuelFrames, {{}}, DuelDtSet)

\* the duel is over when the game leaves the state Playing
NextDuel == DuelUpdatePlaying

SpecDuel == InitDuel /\ [][NextDuel]_vars

\* the player attacks made so far
C22_Attacks == IF "attacks" \in DOMAIN last THEN last.attacks ELSE 0

\* C22: while the player stands still with the Sword and the Goblin (health
\* 10) stays in range, every ready attack lowers the Goblin's health by at
\* least 1: after n attacks a Goblin still in the live collection has a
\* health of at most 10 - n and more than 0, so after at most 10 attacks its
\* health has reached 0 and it left the collection in the frame of that
\* attack.
C22_BoundedKill ==
    /\ \A i \in 1..Len(monsters) :
          monsters[i].monster_type = "Goblin" =>
             /\ monsters[i].health > 0
             /\ monsters[i].health <= 10 - C22_Attacks
    /\ "strikes" \in DOMAIN last =>
          \A i \in 1..Len(last.strikes) :
             last.strikes[i].monster_type = "Goblin" =>
                /\ last.strikes[i].health_after
                     <= last.strikes[i].health_before - 1
                /\ (last.strikes[i].health_after = 0 =>
                       \A j \in 1..Len(monsters) :
                          monsters[j].monster_type # "Goblin")

\* the tenth attack found the Goblin with health 1, and it is gone
C22_Witness ==
    /\ C22_Attacks = 10
    /\ last.kills = 1
    /\ last.strikes[1].monster_type = "Goblin"
    /\ last.strikes[1].health_before = 1
    /\ monsters = << >>

\* the lifetimes of the texts q
C23_Lifetimes(q) == [i \in 1..Len(q) |-> q[i].lifetime]

\* n lifetimes of texts just created
C23_Fresh(n) == [i \in 1..n |-> Second]

\* a frame that runs the simulation for the time dt leaves exactly the texts
\* it began with and the texts of its pickups, each dt older, that still
\* have a lifetime above 0; any other frame leaves the texts alone, and a
\* restart leaves none
C23_Frame ==
    IF state = "Playing" /\ ~last'.key_i
    THEN LET picked == Len(player'.inventory) - Len(player.inventory)
             all == C23_Lifetimes(floating_texts) \o C23_Fresh(picked)
             aged == [i \in 1..Len(all) |-> all[i] - last'.dt]
         IN  C23_Lifetimes(floating_texts')
                = SelectSeq(aged, LAMBDA t : t > 0)
    ELSE IF last'.confirm THEN floating_texts' = << >>
    ELSE floating_texts' = floating_texts

\* C23: a floating text is created with lifetime 1.0 s, loses dt in every
\* Playing frame that runs the simulation, the frame that created it
\* included, and is removed in the frame in which its lifetime becomes <= 0;
\* so at every frame boundary every floating text has 0 < lifetime <= 1.0,
\* and a text with lifetime L is gone after at most L / dt further such
\* frames of length dt > 0.
C23_TextLifecycle ==
    /\ [](\A i \in 1..Len(floating_texts) :
             /\ floating_texts[i].lifetime > 0
             /\ floating_texts[i].lifetime <= Second)
    /\ [][last'.op = "update" => C23_Frame]_vars

\* the text of a pickup, 0.5 s old after the frame that created it, was
\* removed by the next frame of 0.5 s
C23_Witness ==
    /\ last.op = "update"
    /\ last.state = "Playing"
    /\ ~last.key_i
    /\ last.dt = Second \div 2
    /\ steps = 2
    /\ Len(player.inventory) = 2
    /\ floating_texts = << >>

\* C28: a ground item within 0.5 tile of a player whose inventory holds 8
\* items stays on the ground and creates no floating text; and every
\* check_item_pickup keeps (inventory count + ground item count) and creates
\* as many floating texts as it moved items.
C28_PickupConserves ==
    [][last'.op = "check_item_pickup" =>
          LET moved == Len(ground_items) - Len(ground_items')
          IN  /\ moved >= 0
              /\ Len(player'.inventory) = Len(player.inventory) + moved
              /\ Len(floating_texts') = Len(floating_texts) + moved
              /\ SubSeq(floating_texts', 1, Len(floating_texts))
                    = floating_texts
              /\ Len(player.inventory) = 8 =>
                    /\ ground_items' = ground_items
                    /\ floating_texts' = floating_texts
                    /\ player'.inventory = player.inventory]_vars

\* a pickup by a player with 8 items left an item lying within 0.5 of them
C28_Witness ==
    /\ last.op = "check_item_pickup"
    /\ last.count = 8
    /\ Len(player.inventory) = 8
    /\ \E i \in 1..Len(ground_items) : C13_Near(player, ground_items[i])
    /\ floating_texts = << >>

\* C29: an update in state Inventory leaves the player's position, health,
\* attack cooldown and regen timer, the camera, the monsters, the ground
\* items, the floating texts and the spawned chunks unchanged; only the
\* state, the inventory contents and the equipped weapon and armor may
\* change.
C29_InventoryPauses ==
    [][(state = "Inventory" /\ last'.op = "update") =>
          /\ [player' EXCEPT !.inventory = player.inventory,
                             !.weapon = player.weapon,
                             !.armor = player.armor] = player
          /\ camera' = camera
          /\ monsters' = monsters
          /\ ground_items' = ground_items
          /\ floating_texts' = floating_texts
          /\ spawned_chunks' = spawned_chunks
          /\ world' = world]_vars

\* an Inventory frame equipped an armor from a clicked slot while monsters,
\* ground items and a floating text were there
C29_Witness ==
    /\ last.op = "update"
    /\ last.state = "Inventory"
    /\ last.slot # NoClick
    /\ Len(player.inventory) < last.count
    /\ player.armor # NoArmor
    /\ monsters # << >>
    /\ ground_items # << >>
    /\ floating_texts # << >>

\* C30: a Playing frame in which the inventory key fires performs no
\* simulation step: the state becomes Inventory and the player, the camera,
\* the monsters, the ground items, the floating texts and the spawned chunks
\* are unchanged, even if the attack input fired in that frame and monsters
\* are in range.
C30_InventoryKeyFirst ==
    [][(state = "Playing" /\ last'.op = "update" /\ last'.key_i) =>
          /\ state' = "Inventory"
          /\ player' = player
          /\ camera' = camera
          /\ monsters' = monsters
          /\ ground_items' = ground_items
          /\ floating_texts' = floating_texts
          /\ spawned_chunks' = spawned_chunks]_vars

\* a Playing frame saw the inventory key while the attack input fired, the
\* player was ready to attack and a monster stood within 1.0 of the player
C30_Witness ==
    /\ last.op = "update"
    /\ last.state = "Playing"
    /\ last.key_i
    /\ last.mouse
    /\ state = "Inventory"
    /\ player.attack_cooldown <= 0
    /\ \E i \in 1..Len(monsters) :
          (monsters[i].x - player.x) * (monsters[i].x - player.x)
             + (monsters[i].y - player.y) * (monsters[i].y - player.y)
          <= Tile * Tile

----------------------------------------------------------------------------
(* camera.rs: world_to_screen and screen_to_world, called directly.

   In this specification an f32 is an integer number of quanta of 1/128 (of
   a tile for world coordinates and the camera, of a pixel for screen
   coordinates), rounded to the 24 significant bits of an f32.  The inputs
   drawn are whole multiples of 1/64 tile and whole pixels; every value the
   two functions then compute is a whole number of quanta (the products are
   by 32 and 16, the quotients by 32, 16 and 2 are whole), so the model
   computes what the f32 arithmetic computes. *)

\* quanta per tile and per pixel
Quantum == 128

TILE_WIDTH == 64
TILE_HEIGHT == 32

\* the unit in the last place of an f32 of magnitude a, in quanta
RECURSIVE Ulp(_)
Ulp(a) == IF a < 2^24 THEN 1 ELSE 2 * Ulp(a \div 2)

\* v rounded to the nearest f32, ties to the even significand
F32(v) ==
    LET a == Abs(v)
        u == Ulp(a)
        k == a \div u
        r == a % u
        m == IF r > u - r \/ (r = u - r /\ k % 2 = 1) THEN (k + 1) * u
             ELSE k * u
    IN  IF v < 0 THEN -m ELSE m

\* arithmetic without rounding
Exact(v) == v

\* a / b to the nearest quantum, for b > 0 (whole on the inputs drawn)
DivNearest(a, b) ==
    LET q == a \div b
    IN  IF 2 * (a - q * b) >= b THEN q + 1 ELSE q

\* world_to_screen with every operation rounded by R; width and height are
\* screen_width() and screen_height() in pixels
world_to_screen_in(R(_), cam, width, height, world_x, world_y) ==
    LET rel_x == R(world_x - cam.x)
        rel_y == R(world_y - cam.y)
        iso_x == R(R(rel_x - rel_y) * (TILE_WIDTH \div 2))
        iso_y == R(R(rel_x + rel_y) * (TILE_HEIGHT \div 2))
        screen_x == R(R((width * Quantum) \div 2) + iso_x)
        screen_y == R(R((height * Quantum) \div 2) + iso_y)
    IN  <<screen_x, screen_y>>

\* screen_to_world with every operation rounded by R
screen_to_world_in(R(_), cam, width, height, screen_x, screen_y) ==
    LET rel_screen_x == R(screen_x - R((width * Quantum) \div 2))
        rel_screen_y == R(screen_y - R((height * Quantum) \div 2))
        across == R(DivNearest(rel_screen_x, TILE_WIDTH \div 2))
        down == R(DivNearest(rel_screen_y, TILE_HEIGHT \div 2))
        world_x == R(DivNearest(R(across + down), 2))
        world_y == R(DivNearest(R(down - across), 2))
    IN  <<R(world_x + cam.x), R(world_y + cam.y)>>

\* GameCamera::world_to_screen
world_to_screen(cam, width, height, world_x, world_y) ==
    world_to_screen_in(F32, cam, width, height, world_x, world_y)

\* a screen_to_world that returns the two world coordinates in the wrong
\* order
screen_to_world_transposed(cam, width, height, screen_x, screen_y) ==
    LET w == screen_to_world_in(F32, [x |-> cam.y, y |-> cam.x], width,
                                height, screen_x, screen_y)
    IN  <<w[2], w[1]>>

\* GameCamera::screen_to_world
screen_to_world(cam, width, height, screen_x, screen_y) ==
    screen_to_world_in(F32, cam, width, height, screen_x, screen_y)

(* Specification SpecTransform: the two transforms applied to drawn inputs *)

\* the largest coordinate drawn, in tiles: beyond 2^18 tiles the f32 spacing
\* exceeds 1/64 tile
MaxCoordTiles == 300000

\* world coordinates and camera coordinates drawn, in quanta
WorldCoords == {0, 2, Quantum + 2, -(3 * Quantum) - 2, 500 * Quantum}
CameraCoords == {0, -(7 * Quantum) - 2, 100 * Quantum, MaxCoordTiles * Quantum}

\* the viewports drawn, in pixels
Viewports == {<<800, 600>>, <<801, 601>>, <<1920, 1080>>}

InitTransform ==
    \E cx \in CameraCoords, cy \in CameraCoords, v \in Viewports,
       x \in WorldCoords, y \in WorldCoords :
       /\ state = "Playing"
       /\ player = PlayerNew(0, 0)
       /\ world = WorldNew(WORLD_SEED, 0)
       /\ camera = [x |-> cx, y |-> cy]
       /\ monsters = << >>
       /\ ground_items = << >>
       /\ spawned_chunks = {}
       /\ floating_texts = << >>
       /\ last = [op |-> "input", width |-> v[1], height |-> v[2],
                  world_x |-> x, world_y |-> y]
       /\ steps = 0
       /\ spawn_history = {}

\* self.camera.world_to_screen(world_x, world_y)
CallWorldToScreen ==
    /\ last.op = "input"
    /\ LET r == world_to_screen(camera, last.width, last.height,
                                last.world_x, last.world_y)
       IN  last' = [op |-> "world_to_screen", width |-> last.width,
                    height |-> last.height, world_x |-> last.world_x,
                    world_y |-> last.world_y,
                    screen_x |-> r[1], screen_y |-> r[2]]
    /\ steps' = steps + 1
    /\ UNCHANGED <<gameVars, spawn_history>>

\* self.camera.screen_to_world(screen_x, screen_y)
CallScreenToWorld ==
    /\ last.op = "world_to_screen"
    /\ LET r == screen_to_world(camera, last.width, last.height,
                                last.screen_x, last.screen_y)
       IN  last' = [op |-> "screen_to_world", width |-> last.width,
                    height |-> last.height, world_x |-> last.world_x,
                    world_y |-> last.world_y, screen_x |-> last.screen_x,
                    screen_y |-> last.screen_y,
                    ret_x |-> r[1], ret_y |-> r[2]]
    /\ steps' = steps + 1
    /\ UNCHANGED <<gameVars, spawn_history>>

NextTransform ==
    \/ CallWorldToScreen
    \/ CallScreenToWorld

SpecTransform == InitTransform /\ [][NextTransform]_vars

\* the round trip through the f32 transforms returned the world point to
\* within 1e-3 tile
C24_Close ==
    /\ 1000 * Abs(last.ret_x - last.world_x) <= Quantum
    /\ 1000 * Abs(last.ret_y - last.world_y) <= Quantum

\* the round trip in exact arithmetic returns the world point
C24_ExactRoundTrip ==
    LET s == world_to_screen_in(Exact, camera, last.width, last.height,
                                last.world_x, last.world_y)
    IN  screen_to_world_in(Exact, camera, last.width, last.height,
                           s[1], s[2]) = <<last.world_x, last.world_y>>

C24_Reach == 2 ^ 9

----------------------------------------------------------------------------
(* Specification SpecFollow: GameCamera::follow called repeatedly with a
   fixed target and a fixed dt; positions in 1/1000 tile, dt in ms *)

MaxFollowCalls == 100

\* the frame times drawn, in ms: none, a frame at 60 Hz, slower frames, and
\* a pause after which exp(-5 dt) is below the resolution of an f32 next to 1
FollowDtSet == {0, 16, 100, 500, 4 * Second}

\* the camera positions and targets drawn
FollowStarts == {<<0, 0>>, <<-(3 * Tile), 2 * Tile>>}
FollowTargets == {<<5 * Tile, 0>>, <<-1234, 777>>, <<0, 0>>}

InitFollow ==
    \E c \in FollowStarts, t \in FollowTargets, dt \in FollowDtSet :
       /\ state = "Playing"
       /\ player = PlayerNew(t[1], t[2])
       /\ world = WorldNew(WORLD_SEED, 0)
       /\ camera = [x |-> c[1], y |-> c[2]]
       /\ monsters = << >>
       /\ ground_items = << >>
       /\ spawned_chunks = {}
       /\ floating_texts = << >>
       /\ last = [op |-> "input", target_x |-> t[1], target_y |-> t[2],
                  dt |-> dt]
       /\ steps = 0
       /\ spawn_history = {}

\* self.camera.follow(self.player.x, self.player.y, dt)
CallFollow ==
    /\ steps < MaxFollowCalls
    /\ camera' = follow(camera, last.target_x, last.target_y, last.dt)
    /\ last' = [last EXCEPT !.op = "follow"]
    /\ steps' = steps + 1
    /\ UNCHANGED <<state, player, world, monsters, ground_items,
                   spawned_chunks, floating_texts, spawn_history>>

NextFollow == CallFollow

SpecFollow == InitFollow /\ [][NextFollow]_vars

\* the epsilon of the claim: 0.01 tile
C25_Epsilon == Tile \div 100

\* the square of the distance from the camera c to the target
C25_Dist2(c) ==
    (c.x - last.target_x) * (c.x - last.target_x)
       + (c.y - last.target_y) * (c.y - last.target_y)

\* C25: with a fixed target and a fixed dt > 0 every follow call strictly
\* decreases |pos - target| as long as it is not below epsilon, and on
\* neither axis does the camera pass the target or move away from it; a
\* follow call with dt = 0 leaves the camera where it is.
C25_Convergence ==
    [][last'.op = "follow" =>
          IF last.dt = 0 THEN camera' = camera
          ELSE /\ C25_Dist2(camera) >= C25_Epsilon * C25_Epsilon =>
                     C25_Dist2(camera') < C25_Dist2(camera)
               /\ (last.target_x - camera'.x) * (last.target_x - camera.x) >= 0
               /\ (last.target_y - camera'.y) * (last.target_y - camera.y) >= 0
               /\ Abs(last.target_x - camera'.x) <= Abs(last.target_x - camera.x)
               /\ Abs(last.target_y - camera'.y)
                     <= Abs(last.target_y - camera.y)]_vars

\* after more than 50 calls at 16 ms the camera, which started more than
\* five tiles away, is within epsilon of a target off the grid
C25_Witness ==
    /\ last.op = "follow"
    /\ last.dt = 16
    /\ last.target_x = -1234
    /\ steps > 50
    /\ C25_Dist2(camera) < C25_Epsilon * C25_Epsilon

----------------------------------------------------------------------------
\* C31: an update in state GameOver without a Space or Enter edge changes
\* nothing: the state stays GameOver and the player, the camera, the
\* monsters, the ground items, the floating texts and the spawned chunks are
\* unchanged, for any number of such frames.
C31_GameOverFrozen ==
    [][(state = "GameOver" /\ last'.op = "update" /\ ~last'.confirm) =>
          /\ state' = "GameOver"
          /\ player' = player
          /\ world' = world
          /\ camera' = camera
          /\ monsters' = monsters
          /\ ground_items' = ground_items
          /\ floating_texts' = floating_texts
          /\ spawned_chunks' = spawned_chunks]_vars

\* the second of two GameOver frames without a confirmation has passed, with
\* monsters around the dead player
C31_Witness ==
    /\ last.op = "update"
    /\ last.state = "GameOver"
    /\ ~last.confirm
    /\ steps = MaxFrames
    /\ state = "GameOver"
    /\ player.health = 0
    /\ monsters # << >>

\* C32: a monster is spawned inside the chunk that spawned it: for every
\* chunk (cx, cy) that spawns a monster the spawn position (sx, sy) has
\* 8 cx <= sx < 8 cx + 8 and 8 cy <= sy < 8 cy + 8, that is floor(sx / 8) =
\* cx and floor(sy / 8) = cy, for negative chunk coordinates too.
C32_SpawnInsideChunk ==
    \A e \in spawn_history :
       e[3].spawned =>
          /\ CHUNK_SIZE * e[1] * Tile <= e[3].x
          /\ e[3].x < (CHUNK_SIZE * e[1] + CHUNK_SIZE) * Tile
          /\ CHUNK_SIZE * e[2] * Tile <= e[3].y
          /\ e[3].y < (CHUNK_SIZE * e[2] + CHUNK_SIZE) * Tile
          /\ FloorDiv(e[3].x, CHUNK_SIZE * Tile) = e[1]
          /\ FloorDiv(e[3].y, CHUNK_SIZE * Tile) = e[2]

\* chunks with negative and with positive coordinates have spawned monsters,
\* one of them at the low edge of its chunk
C32_Witness ==
    /\ \E e \in spawn_history : e[3].spawned /\ e[1] < 0 /\ e[2] < 0
    /\ \E e \in spawn_history : e[3].spawned /\ e[1] > 0
    /\ \E e \in spawn_history :
          /\ e[3].spawned
          /\ \/ e[3].x = CHUNK_SIZE * e[1] * Tile
             \/ e[3].y = CHUNK_SIZE * e[2] * Tile

\* the low and the high 16 bits of c * k mod 2^32, for a chunk coordinate c
\* and a 32-bit constant k
C33_Product(c, k) ==
    LET low == c * (k % 65536)
    IN  <<low % 65536, (c * (k \div 65536) + (low \div 65536)) % 65536>>

\* the XOR of two numbers of n bits
RECURSIVE C33_Xor(_, _, _)
C33_Xor(a, b, n) ==
    IF n = 0 THEN 0
    ELSE (IF a % 2 = b % 2 THEN 0 ELSE 1)
            + 2 * C33_Xor(a \div 2, b \div 2, n - 1)

\* the low and the high 16 bits of the hash of the claim
C33_Hash(cx, cy) ==
    LET a == C33_Product(cx, 374761393)
        b == C33_Product(cy, 668265263)
    IN  <<C33_Xor(a[1], b[1], 16), C33_Xor(a[2], b[2], 16)>>

\* hash mod 5 = 0 (2^16 = 1 mod 5) and the spawn position, the chunk's low
\* corner plus (hash >> 8) mod 8 and (hash >> 16) mod 8, is outside the
\* start area
C33_Spawns(cx, cy) ==
    LET h == C33_Hash(cx, cy)
        sx == CHUNK_SIZE * cx + ((h[1] \div 256) % CHUNK_SIZE)
        sy == CHUNK_SIZE * cy + (h[2] % CHUNK_SIZE)
    IN  /\ (h[1] + h[2]) % 5 = 0
        /\ ~(Abs(sx) < 5 /\ Abs(sy) < 5)

\* C33: a first call of spawn_chunk(cx, cy) creates a monster if and only
\* if hash mod 5 = 0 and the spawn position is outside the start area, hash
\* being the unsigned 32-bit value of (cx * 374761393 mod 2^32) XOR
\* (cy * 668265263 mod 2^32).
C33_SpawnPredicate ==
    \A e \in spawn_history : e[3].spawned <=> C33_Spawns(e[1], e[2])

\* first calls have created monsters, have found hash mod 5 # 0 on a chunk
\* with negative coordinates, and have rejected the chunk of the origin,
\* whose hash mod 5 is 0
C33_Witness ==
    /\ \E e \in spawn_history : e[3].spawned /\ e[1] < 0
    /\ \E e \in spawn_history :
          ~e[3].spawned /\ e[1] < 0 /\ e[2] < 0
             /\ (C33_Hash(e[1], e[2])[1] + C33_Hash(e[1], e[2])[2]) % 5 # 0
    /\ \E e \in spawn_history :
          ~e[3].spawned /\ e[1] = 0 /\ e[2] = 0
             /\ (C33_Hash(0, 0)[1] + C33_Hash(0, 0)[2]) % 5 = 0

\* the species the claim allows on a terrain
C34_Allowed(terrain) ==
    CASE terrain = "Grass" -> {"Goblin", "Ogre"}
      [] terrain = "Desert" -> {"Orc", "Wyrm"}
      [] terrain = "Snow" -> {"SnowGoblin", "Yeti"}

\* C34: every spawned monster's species belongs to the allowed list of the
\* terrain at its spawn point (Grass: Goblin or Ogre; Desert: Orc or Wyrm;
\* Snow: SnowGoblin or Yeti), and the monster starts with a health equal to
\* its species' max health and an attack cooldown of 0.
C34_SpawnedSpecies ==
    \A i \in 1..Len(monsters) :
       /\ monsters[i].monster_type
             \in C34_Allowed(get_terrain_at(world, monsters[i].x, monsters[i].y))
       /\ monsters[i].health = max_health(monsters[i].monster_type)
       /\ monsters[i].max_health = monsters[i].health
       /\ monsters[i].attack_cooldown = 0

\* two chunks have spawned monsters, one the first and one the second
\* species of its terrain
C34_Witness ==
    /\ last.op = "spawn_chunk"
    /\ Len(monsters) = 2
    /\ monsters[1].monster_type \in {"Goblin", "Orc", "SnowGoblin"}
    /\ monsters[2].monster_type \in {"Ogre", "Wyrm", "Yeti"}

----------------------------------------------------------------------------
(* Specification SpecChase: Monster::update called repeatedly on one monster
   with the player standing still; positions in 1/1000 tile, dt in ms *)

MaxChaseCalls == 6

\* the frame times drawn, in ms
ChaseDtSet == {0, 16, 100, 500}

\* where the player stands
ChasePlayers == {<<0, 0>>, <<1234, -777>>}

\* where the monster starts, relative to the player: on the player, at
\* exactly 0.5 tile and just beyond it, inside the band, at exactly 10 tiles
\* and just beyond them, and far away
ChaseOffsets ==
    {<<0, 0>>, <<300, 400>>, <<300, 401>>, <<-(Tile \div 2), 0>>,
     <<-(Tile \div 2) - 1, 0>>, <<3 * Tile, -(4 * Tile)>>,
     <<6 * Tile, 8 * Tile>>, <<6 * Tile, 8 * Tile + 1>>, <<0, -(10 * Tile)>>,
     <<0, -(10 * Tile) - 1>>, <<7071, 7071>>, <<7072, 7071>>,
     <<-(20 * Tile), 0>>}

InitChase ==
    \E t \in ChasePlayers, o \in ChaseOffsets, dt \in ChaseDtSet,
       cooldown \in {0, Second \div 2}, hurt \in BOOLEAN :
    \E g \in {NewGame0} :
       LET species == for_terrain(get_terrain_at(g.world, 0, 0))[1]
           m == MonsterNew(t[1] + o[1], t[2] + o[2], species)
       IN  /\ state = "Playing"
           /\ player = PlayerNew(t[1], t[2])
           /\ world = g.world
           /\ camera = g.camera
           /\ monsters = << [m EXCEPT !.attack_cooldown = cooldown,
                                      !.health = IF hurt THEN 5 ELSE m.health] >>
           /\ ground_items = << >>
           /\ spawned_chunks = {}
           /\ floating_texts = << >>
           /\ last = [op |-> "input", dt |-> dt, before |-> << >>]
           /\ steps = 0
           /\ spawn_history = {}

\* monster.update(dt, self.player.x, self.player.y)
CallMonsterUpdate ==
    /\ steps < MaxChaseCalls
    /\ monsters' = << monster_update(monsters[1], last.dt, player.x, player.y) >>
    /\ last' = [last EXCEPT !.op = "monster_update", !.before = monsters]
    /\ steps' = steps + 1
    /\ UNCHANGED <<state, player, world, camera, ground_items, spawned_chunks,
                   floating_texts, spawn_history>>

NextChase == CallMonsterUpdate

SpecChase == InitChase /\ [][NextChase]_vars

\* the square of the distance from the monster m to the player
C35_Dist2(m) ==
    (player.x - m.x) * (player.x - m.x) + (player.y - m.y) * (player.y - m.y)

\* the monster m is in the chase band: 0.5 < d <= 10.0
C35_InBand(m) ==
    /\ C35_Dist2(m) > (Tile \div 2) * (Tile \div 2)
    /\ C35_Dist2(m) <= (10 * Tile) * (10 * Tile)

\* the step from a to b has length 4 * dt, to within the rounding of the two
\* coordinates, and points along the line from a to the player
C35_StepToward(a, b, dt) ==
    LET sx == b.x - a.x
        sy == b.y - a.y
        dx == player.x - a.x
        dy == player.y - a.y
        want == (4 * dt * Tile) \div Second
    IN  /\ sx * sx + sy * sy >= (want - 1) * (want - 1) \/ want = 0
        /\ sx * sx + sy * sy <= (want + 1) * (want + 1)
        /\ sx * dx + sy * dy >= 0
        /\ 2 * Abs(sx * dy - sy * dx) <= Abs(dx) + Abs(dy)
        /\ dt > 0 => <<sx, sy>> # <<0, 0>>

\* C35: Monster.update moves the monster if and only if its distance d to
\* the player satisfies 0.5 < d <= 10.0, and then by 4.0 * dt along the
\* straight line toward the player (a step of length 0 when dt = 0); for
\* d <= 0.5 or d > 10.0 the position is unchanged. Monster.update never
\* changes the monster's health.
C35_ChaseBand ==
    [][last'.op = "monster_update" =>
          /\ IF C35_InBand(monsters[1])
             THEN C35_StepToward(monsters[1], monsters'[1], last.dt)
             ELSE /\ monsters'[1].x = monsters[1].x
                  /\ monsters'[1].y = monsters[1].y
          /\ monsters'[1].health = monsters[1].health
          /\ monsters'[1].max_health = monsters[1].max_health
          /\ monsters'[1].monster_type = monsters[1].monster_type]_vars

\* a hurt monster exactly 10 tiles from the player has moved 2 tiles toward
\* it in a frame of 0.5 s and kept its health
C35_Witness ==
    /\ last.op = "monster_update"
    /\ steps = 1
    /\ last.dt = Second \div 2
    /\ C35_Dist2(last.before[1]) = (10 * Tile) * (10 * Tile)
    /\ C35_Dist2(monsters[1]) = (8 * Tile) * (8 * Tile)
    /\ monsters[1].health = 5

----------------------------------------------------------------------------
\* the step is a restart: a GameOver frame with a Space or Enter edge
C36_Restart == last'.op = "update" /\ last'.state = "GameOver" /\ last'.confirm

\* the number of monsters the step has created: the growth of the monster
\* list plus the monsters the step's combat removed
C36_Created == Len(monsters') - Len(monsters) + last'.kills

\* the chunk c passes the hash test
C36_HashAccepts(c) == (C33_Hash(c[1], c[2])[1] + C33_Hash(c[1], c[2])[2]) % 5 = 0

\* C36: within one world instance spawned_chunks only grows (no chunk is
\* removed before a restart); every chunk a Playing frame visits, also one
\* rejected by the hash test or by the start-area test, is recorded as
\* spawned; and the monsters a frame creates are exactly one for each newly
\* recorded chunk that passes both tests, so that a chunk recorded earlier,
\* rejected or not, produces no monster in any later frame.
C36_ChunksOnlyGrow ==
    [][(last'.op = "update" /\ ~C36_Restart) =>
          /\ spawned_chunks \subseteq spawned_chunks'
          /\ (last'.state = "Playing" /\ ~last'.key_i) =>
                 SpawnArea(player') \subseteq spawned_chunks'
          /\ C36_Created =
                Cardinality({c \in spawned_chunks' \ spawned_chunks :
                                C33_Spawns(c[1], c[2])})]_vars

\* after a second Playing frame the player has left chunk (0, 0), the frame
\* has recorded new chunks, among them one the hash test rejects, and the
\* chunks recorded earlier and visited again hold one the hash test rejected
\* and one the start-area test rejected
C36_Witness ==
    /\ last.op = "update"
    /\ last.state = "Playing"
    /\ ~last.key_i
    /\ steps >= 2
    /\ <<FloorDiv(player.x, CHUNK_SIZE * Tile),
         FloorDiv(player.y, CHUNK_SIZE * Tile)>> # <<0, 0>>
    /\ \E c \in spawned_chunks \ SpawnArea(PlayerNew(0, 0)) :
          ~C36_HashAccepts(c)
    /\ \E c \in SpawnArea(player) \cap SpawnArea(PlayerNew(0, 0)) :
          c \in spawned_chunks /\ ~C36_HashAccepts(c)
    /\ \E c \in SpawnArea(player) \cap SpawnArea(PlayerNew(0, 0)) :
          c \in spawned_chunks /\ C36_HashAccepts(c)
             /\ ~C33_Spawns(c[1], c[2])

----------------------------------------------------------------------------
\* the items inv without the one in slot i (slots count from 0): the later
\* items move down by one and keep their order
C37_Without(inv, i) == SubSeq(inv, 1, i) \o SubSeq(inv, i + 2, Len(inv))

\* C37: a click on the occupied slot i removes item i and shifts the later
\* items down by one in their order; a displaced weapon or armor is appended
\* as the last inventory item, also when the inventory was full before the
\* click; the inventory count is unchanged when an item was displaced and
\* decreases by exactly 1 when armor is equipped onto an unarmored player.
\* The clicked item is the one equipped afterwards.
C37_EquipClickBookkeeping ==
    [][(/\ last'.op = "update"
        /\ state = "Inventory"
        /\ ~last'.key_i
        /\ ~last'.key_escape
        /\ last'.slot # NoClick
        /\ last'.slot < Len(player.inventory)) =>
          LET inv == player.inventory
              item == inv[last'.slot + 1]
              rest == C37_Without(inv, last'.slot)
          IN  IF item[1] = "Weapon"
              THEN /\ player'.inventory = rest \o << Weapon(player.weapon) >>
                   /\ Len(player'.inventory) = Len(inv)
                   /\ player'.weapon = item[2]
                   /\ player'.armor = player.armor
              ELSE IF player.armor # NoArmor
              THEN /\ player'.inventory = rest \o << Armor(player.armor) >>
                   /\ Len(player'.inventory) = Len(inv)
                   /\ player'.armor = item[2]
                   /\ player'.weapon = player.weapon
              ELSE /\ player'.inventory = rest
                   /\ Len(player'.inventory) = Len(inv) - 1
                   /\ player'.armor = item[2]
                   /\ player'.weapon = player.weapon]_vars

\* a click on the first slot of a full inventory has equipped its weapon;
\* the weapon it displaced, a different one, is the last of eight items
C37_Witness ==
    /\ last.op = "update"
    /\ last.state = "Inventory"
    /\ last.slot = 0
    /\ last.count = INVENTORY_SIZE
    /\ Len(player.inventory) = INVENTORY_SIZE
    /\ player.inventory[INVENTORY_SIZE] = Weapon(last.weapon)
    /\ last.weapon # player.weapon
    /\ player.inventory[1] = InventoryPattern[2]

----------------------------------------------------------------------------
(* Frames of an approach: the player stands still with the Mace while a hurt
   monster and a large one, both ready to attack, close in from beyond the
   attack range, and a third one stands beyond the detection range.  The
   frames are Playing frames, with or without the attack input. *)

MaxReachFrames == 3

\* the frame times of these frames, in ms
ReachDtSet == {200, 500}

InitReach ==
    \E g \in {NewGame0} :
       LET species == for_terrain(get_terrain_at(g.world, 0, 0))
       IN  /\ state = "Playing"
           /\ player = [g.player EXCEPT !.weapon = "Mace"]
           /\ world = g.world
           /\ camera = g.camera
           /\ monsters =
                 << [MonsterNew(0, 3 * Tile + 1, species[1]) EXCEPT !.health = 5],
                    MonsterNew(5 * Tile + 1, 0, species[2]),
                    MonsterNew(-(20 * Tile), 0, species[1]) >>
           /\ ground_items = << >>
           /\ spawned_chunks = g.spawned_chunks
           /\ floating_texts = << >>
           /\ last = [op |-> "new"]
           /\ steps = 0
           /\ spawn_history = {}

ReachUpdatePlaying == UpdatePlayingFrame(MaxReachFrames, {{}}, ReachDtSet)

\* the approach is over when the game leaves the state Playing
NextReach == ReachUpdatePlaying

SpecReach == InitReach /\ [][NextReach]_vars

\* the step is a Playing frame that runs its combat
C38_Combat == last'.op = "update" /\ state = "Playing" /\ ~last'.key_i

\* the monster or strike record m is farther than 1.0 tile from the place
\* (px, py)
C38_Far(m, px, py) ==
    (m.x - px) * (m.x - px) + (m.y - py) * (m.y - py) > Tile * Tile

\* the frame's player attack has reached no monster
C38_Missed ==
    /\ last'.attacked
    /\ \A k \in 1..Len(last'.strikes) :
          C38_Far(last'.strikes[k], player'.x, player'.y)

\* the frame's player attack has killed the monster at place i of the list
\* the frame began with
C38_Killed(i) == last'.attacked /\ last'.strikes[i].health_after <= 0

\* the place, in the list the frame ends with, of the surviving monster that
\* was at place i of the list the frame began with
C38_Place(i) == i - Cardinality({k \in 1..(i - 1) : C38_Killed(k)})

\* the monster at place j of the list the frame ends with has hit the player
C38_HitBy(j) == \E k \in 1..Len(last'.hits) : last'.hits[k].attacker = j

\* what the frame does with the monster at place i, ready and out of range
\* when the frame begins, if it survives the player's attack: out of range
\* after its move it keeps its cooldown and does not hit, within range it
\* hits and takes the cooldown of 0.5 s
C38_ReadyMonster(i) ==
    LET m == monsters'[C38_Place(i)]
    IN  IF C38_Far(m, player'.x, player'.y)
        THEN /\ m.attack_cooldown = monsters[i].attack_cooldown
             /\ m.attack_cooldown <= 0
             /\ ~C38_HitBy(C38_Place(i))
        ELSE /\ C38_HitBy(C38_Place(i))
             /\ m.attack_cooldown = Second \div 2

\* the monsters the claim is about: ready and farther than 1.0 tile from
\* the player when the frame begins
C38_ReadyFar ==
    {i \in 1..Len(monsters) :
        /\ monsters[i].attack_cooldown <= 0
        /\ C38_Far(monsters[i], player.x, player.y)}

\* C38 as amended: when the attack edge fires with the cooldown ready and no
\* monster is within 1.0 tile, the player's cooldown is still set to 0.3 s
\* and no monster is hurt; a ready monster farther than 1.0 tile from the
\* player keeps its cooldown unchanged (<= 0) while the frames' combat finds
\* it out of range, and in the first frame whose combat finds it within
\* range it hits, unless the player's attack of that frame, which is
\* resolved first, kills it.
C38_MissAndReach ==
    [][C38_Combat =>
          /\ C38_Missed =>
                 /\ player'.attack_cooldown = (3 * Second) \div 10
                 /\ last'.kills = 0
                 /\ \A k \in 1..Len(last'.strikes) :
                       last'.strikes[k].health_after
                          = last'.strikes[k].health_before
          /\ \A i \in C38_ReadyFar :
                 ~C38_Killed(i) => C38_ReadyMonster(i)]_vars

\* C38 as stated: the same, and the ready monster hits in the first frame in
\* which it is within range whatever the player does in that frame.
C38_MissAndReachAlways ==
    [][C38_Combat =>
          /\ C38_Missed =>
                 /\ player'.attack_cooldown = (3 * Second) \div 10
                 /\ last'.kills = 0
                 /\ \A k \in 1..Len(last'.strikes) :
                       last'.strikes[k].health_after
                          = last'.strikes[k].health_before
          /\ \A i \in C38_ReadyFar :
                 /\ ~C38_Killed(i)
                 /\ C38_ReadyMonster(i)]_vars

\* the player attacked in the first frame, when every monster was out of
\* range, and not in the second, in which a monster that had never hit
\* before came within range and hit
C38_Witness ==
    /\ last.op = "update"
    /\ last.state = "Playing"
    /\ steps = 2
    /\ ~last.attacked
    /\ last.since_attack = last.dt
    /\ Len(last.hits) = 1
    /\ last.hit_gaps[1] = -1
    /\ player.health < last.health
    /\ monsters[last.hits[1].attacker].attack_cooldown = Second \div 2

----------------------------------------------------------------------------
(* Specification SpecMove: Player::update called directly with every
   combination of the four directional inputs; positions in 1/1000 tile, dt
   in ms *)

MaxMoveCalls == 2

\* the frame times drawn, in ms
MoveDtSet == {0, 16, 100, 500}

\* the combinations of the directional inputs ("W" stands for W or Up, "S"
\* for S or Down, "A" for A or Left, "D" for D or Right)
MoveKeySets == SUBSET {"W", "S", "A", "D"}

\* the ways the player may face
Directions == {"UpLeft", "UpRight", "DownLeft", "DownRight"}

InitMove ==
    \E facing \in Directions :
    \E g \in {NewGame0} :
       /\ state = "Playing"
       /\ player = [g.player EXCEPT !.facing = facing]
       /\ world = g.world
       /\ camera = g.camera
       /\ monsters = << >>
       /\ ground_items = << >>
       /\ spawned_chunks = g.spawned_chunks
       /\ floating_texts = << >>
       /\ last = [op |-> "new"]
       /\ steps = 0
       /\ spawn_history = {}

\* self.player.update(dt, &self.world) with the keys held down
CallPlayerUpdateKeys ==
    /\ steps < MaxMoveCalls
    /\ \E keys \in MoveKeySets, dt \in MoveDtSet :
          /\ player' = player_update(player, keys, dt)
          /\ last' = [op |-> "player_update", keys |-> keys, dt |-> dt,
                      before |-> player]
    /\ steps' = steps + 1
    /\ UNCHANGED <<state, world, camera, monsters, ground_items,
                   spawned_chunks, floating_texts, spawn_history>>

NextMove == CallPlayerUpdateKeys

SpecMove == InitMove /\ [][NextMove]_vars

\* the intent of one directional input in world space
C39_KeyVector(k) ==
    CASE k = "W" -> <<-1, -1>>
      [] k = "S" -> <<1, 1>>
      [] k = "A" -> <<-1, 1>>
      [] k = "D" -> <<1, -1>>

\* the combined intent vector of the inputs keys
RECURSIVE C39_Intent(_)
C39_Intent(keys) ==
    IF keys = {} THEN <<0, 0>>
    ELSE LET k == CHOOSE key \in keys : TRUE
             rest == C39_Intent(keys \ {k})
         IN  <<rest[1] + C39_KeyVector(k)[1], rest[2] + C39_KeyVector(k)[2]>>

\* C39: for every combination of the four directional inputs the player's
\* displacement in one update has length 5 * dt, to within the rounding of
\* the two coordinates, and points along the combined intent vector when
\* that vector is nonzero (no diagonal or two-key speed boost); it is zero
\* when no key or only opposing keys are held, and then the facing
\* direction is unchanged.
C39_MovementNormalized ==
    [][last'.op = "player_update" =>
          LET intent == C39_Intent(last'.keys)
              sx == player'.x - player.x
              sy == player'.y - player.y
              want == (5 * last'.dt * Tile) \div Second
          IN  IF intent = <<0, 0>>
              THEN /\ sx = 0
                   /\ sy = 0
                   /\ player'.facing = player.facing
              ELSE /\ sx * sx + sy * sy >= (want - 1) * (want - 1) \/ want = 0
                   /\ sx * sx + sy * sy <= (want + 1) * (want + 1)
                   /\ sx * intent[2] = sy * intent[1]
                   /\ sx * intent[1] + sy * intent[2] >= 0
                   /\ last'.dt > 0 => <<sx, sy>> # <<0, 0>>]_vars

\* with W and D held for 0.5 s a player who faced down-left has moved 2.5
\* tiles straight along -y and faces up-right
C39_Witness ==
    /\ last.op = "player_update"
    /\ last.dt = Second \div 2
    /\ steps = 2
    /\ last.keys = {"W", "D"}
    /\ player.x = last.before.x
    /\ player.y = last.before.y - 5 * last.dt
    /\ player.facing = "UpRight"
    /\ last.before.facing = "DownLeft"
====
